---- MODULE Spec2Model ----
(***************************************************************************)
(* Model of the Appli form-interaction engine: the plan parser             *)
(* (action_parser.py), the execution loop (plan_executor.py) and the       *)
(* planning session (mvp.py).                                              *)
(*                                                                         *)
(* Python strings are sequences of one-character strings, so that          *)
(* str.lower(), str.strip() and the `in` substring test are computed.      *)
(***************************************************************************)
EXTENDS FiniteSets, Integers, Sequences, TLC

VARIABLES
    page,           \* live DOM: writable node -> current value
    plan,           \* the PlaywrightPlan being executed: [status, steps]
    filled_fields,  \* dict selector -> recorded value (a function)
    filtered_steps, \* execute_plan_on_page: indices into plan.steps kept by the filter
    idx,            \* execute_plan_on_page: position in filtered_steps (1-based)
    pc,             \* execute_plan_on_page: control point
    waited,         \* the 5000 ms submit delay of the current step has completed
    raised,         \* exception escaping execute_plan_on_page ("none" if none)
    trace,          \* history: events of the current execute_plan_on_page call
    run,            \* history: 1 = first call, 2 = the same plan executed again
    prevPage,       \* history: page after the first call returned
    prevTrace,      \* history: trace of the first call
    iteration,      \* mvp.main: loop counter (0 outside a session)
    mpc,            \* mvp.main: control point
    raw,            \* parse_playwright_plan: the raw LLM output
    result,         \* parse_playwright_plan: returned plan or raised exception
    call,           \* a helper invoked on its own: its name and arguments
    ret,            \* what that helper returned or raised
    widget,         \* _handle_select on a custom dropdown: the field and the locals
    html,           \* mvp.main: the page content the current round's plan was built from
    planned,        \* history: number of plans requested in the session
    aria_hidden,    \* the page's fields carry aria-hidden="true"
    _playwright,    \* browser.py: module global (0 is None, else a handle)
    _browser,       \* browser.py: module global
    _page,          \* browser.py: module global
    tasks,          \* the concurrent tool calls: task -> position and locals
    interval        \* history: launches and pages handed out since the last close_browser call

vars == <<page, plan, filled_fields, filtered_steps, idx, pc, waited, raised,
          trace, run, prevPage, prevTrace, iteration, mpc, raw, result,
          call, ret, widget, html, planned, aria_hidden,
          _playwright, _browser, _page, tasks, interval>>

execVars == <<page, plan, filled_fields, filtered_steps, idx, pc, waited,
              raised, trace, run, prevPage, prevTrace>>
mainVars == <<iteration, mpc>>
parseVars == <<raw, result>>
callVars == <<call, ret, widget>>
snapVars == <<html, planned, aria_hidden>>
browserVars == <<_playwright, _browser, _page, tasks, interval>>

\* Python None (distinct from every string, itself a sequence so that it compares)
None == <<"<None>">>

-----------------------------------------------------------------------------
(* Bounds *)

MaxSteps == 2          \* longest plan handed to execute_plan_on_page
MaxSessionSteps == 1   \* longest plan the planner returns in a session
MaxPayloadSteps == 2   \* longest "steps" list in a raw payload

-----------------------------------------------------------------------------
(* Python string primitives *)

\* str.lower() on one character
LowerChar(c) ==
    CASE c = "A" -> "a" [] c = "B" -> "b" [] c = "C" -> "c" [] c = "D" -> "d"
      [] c = "E" -> "e" [] c = "F" -> "f" [] c = "G" -> "g" [] c = "H" -> "h"
      [] c = "I" -> "i" [] c = "J" -> "j" [] c = "K" -> "k" [] c = "L" -> "l"
      [] c = "M" -> "m" [] c = "N" -> "n" [] c = "O" -> "o" [] c = "P" -> "p"
      [] c = "Q" -> "q" [] c = "R" -> "r" [] c = "S" -> "s" [] c = "T" -> "t"
      [] c = "U" -> "u" [] c = "V" -> "v" [] c = "W" -> "w" [] c = "X" -> "x"
      [] c = "Y" -> "y" [] c = "Z" -> "z"
      [] OTHER -> c

\* str.lower()
Lower(s) == [i \in 1..Len(s) |-> LowerChar(s[i])]

\* Python `a in b` for strings (the empty string is in every string)
IsSubstr(a, b) ==
    \E i \in 0..(Len(b) - Len(a)) : SubSeq(b, i + 1, i + Len(a)) = a

IsSpace(c) == c \in {" ", "\n", "\t"}

\* str.strip()
Strip(s) ==
    LET keep == {i \in 1..Len(s) : ~IsSpace(s[i])}
    IN  IF keep = {} THEN <<>>
        ELSE LET lo == CHOOSE i \in keep : \A j \in keep : i <= j
                 hi == CHOOSE i \in keep : \A j \in keep : j <= i
             IN  SubSeq(s, lo, hi)

IsDigit(c) == c \in {"0", "1", "2", "3", "4", "5", "6", "7", "8", "9"}

\* Python truthiness of an Optional[str]
TruthyStr(s) == s # None /\ s # <<>>

-----------------------------------------------------------------------------
(* String literals used by the code and by the modelled inputs *)

KwSubmit == <<"s", "u", "b", "m", "i", "t">>
KwApplication == <<"a", "p", "p", "l", "i", "c", "a", "t", "i", "o", "n">>

SelA == <<"#", "a">>
SelAB == <<"#", "a", "b">>
SelC == <<"#", "c">>
SelInput == <<"i", "n", "p", "u", "t">>
SelSubmit == <<"#", "S", "u", "b", "m", "i", "t">>
SelNext == <<"#", "n", "e", "x", "t">>
SelApply == <<".", "a", "p", "p", "l", "i", "c", "a", "t", "i", "o", "n">>
SelMissing == <<"#", "z", "z">>
SelAById == <<"[", "i", "d", "=", "\"", "a", "\"", "]">>
SelDigit == <<"#", "1", "a">>
SelQuote == <<"#", "1", "\"", "a">>

Vx == <<"x">>
VX == <<"X">>
Vy == <<"y">>
Vxy == <<"x", "y">>
Vz == <<"z">>
VEmpty == <<>>
VSUBMIT == <<"S", "U", "B", "M", "I", "T">>

-----------------------------------------------------------------------------
(* The page: a fixed set of nodes; the values of the writable ones vary *)

Nodes == {"a", "ab", "c", "Submit", "next", "apply", "d1", "dq"}
WritableNodes == {"a", "ab", "c"}

NodeId(n) ==
    CASE n = "a" -> <<"a">>
      [] n = "ab" -> <<"a", "b">>
      [] n = "c" -> <<"c">>
      [] n = "Submit" -> <<"S", "u", "b", "m", "i", "t">>
      [] n = "next" -> <<"n", "e", "x", "t">>
      [] n = "apply" -> <<>>
      [] n = "d1" -> Tail(SelDigit)
      [] n = "dq" -> Tail(SelQuote)

NodeTag(n) ==
    CASE n \in {"a", "ab"} -> "input"
      [] n = "c" -> "select"
      [] OTHER -> "button"

NodeClass(n) == IF n = "apply" THEN Tail(SelApply) ELSE <<>>

\* document order, used by locator.first
NodeOrder(n) ==
    CASE n = "a" -> 1 [] n = "ab" -> 2 [] n = "c" -> 3
      [] n = "Submit" -> 4 [] n = "next" -> 5 [] n = "apply" -> 6
      [] n = "d1" -> 7 [] n = "dq" -> 8

\* <option value=... >text</option> children of the native select "c"
Options == << [value |-> Vz, text |-> Vxy], [value |-> Vx, text |-> Vx] >>

IdAttrPrefix == <<"[", "i", "d", "=", "\"">>
IdAttrSuffix == <<"\"", "]">>

\* the selector engine's parse of the selector text: an id or class token
\* is an identifier (no leading digit, no quote), a quoted attribute value
\* ends at its first double quote and cannot hold a backslash
IsIdentChar(c) == ~IsSpace(c) /\ c \notin {"\"", "\\", "#", ".", "[", "]", "="}

SelectorSyntaxOk(sel) ==
    IF Len(sel) > 0 /\ sel[1] \in {"#", "."}
    THEN /\ Len(sel) > 1
         /\ ~IsDigit(sel[2])
         /\ \A i \in 2..Len(sel) : IsIdentChar(sel[i])
    ELSE IF Len(sel) > 0 /\ sel[1] = "["
    THEN /\ Len(sel) > 7
         /\ SubSeq(sel, 1, 5) = IdAttrPrefix
         /\ SubSeq(sel, Len(sel) - 1, Len(sel)) = IdAttrSuffix
         /\ \A i \in 6..(Len(sel) - 2) : sel[i] \notin {"\"", "\\"}
    ELSE /\ Len(sel) > 0
         /\ \A i \in 1..Len(sel) : IsIdentChar(sel[i])

\* page.locator(sel): the nodes a well-formed CSS selector matches
Query(sel) ==
    IF Len(sel) > 1 /\ sel[1] = "#"
    THEN {n \in Nodes : NodeId(n) = Tail(sel) /\ ~IsDigit(sel[2])}
    ELSE IF Len(sel) > 1 /\ sel[1] = "."
    THEN {n \in Nodes : NodeClass(n) = Tail(sel)}
    ELSE IF Len(sel) > 7 /\ SubSeq(sel, 1, 5) = IdAttrPrefix
            /\ SubSeq(sel, Len(sel) - 1, Len(sel)) = IdAttrSuffix
    THEN {n \in Nodes : NodeId(n) = SubSeq(sel, 6, Len(sel) - 2)}
    ELSE {n \in Nodes : <<>> # sel /\ Lower(sel) = SelInput /\ NodeTag(n) = "input"}

FirstOf(S) == CHOOSE n \in S : \A m \in S : NodeOrder(n) <= NodeOrder(m)

\* _ensure_locator, the rewrite of '#<digit>...' into [id="<digit>..."]
FixSelector(selector) ==
    IF Len(selector) > 1 /\ selector[1] = "#" /\ IsDigit(selector[2])
    THEN IdAttrPrefix \o Tail(selector) \o IdAttrSuffix
    ELSE selector

\* _ensure_locator: [ok, nodes, exc, queried].  queried is fixed_selector, the
\* text handed to page.locator.  ok = FALSE with exc PlanExecutionError is the
\* count == 0 branch; with exc SelectorSyntaxError locator.count() raised
\* because the driver could not parse the text.  The locator is the set of
\* matched nodes; a strict driver call on a locator holding several nodes
\* fails.
EnsureLocator(pg, selector, allow_multiple) ==
    LET fixed_selector == FixSelector(selector)
        matched == Query(fixed_selector)
    IN  IF ~SelectorSyntaxOk(fixed_selector)
        THEN [ok |-> FALSE, nodes |-> {}, exc |-> "SelectorSyntaxError",
              queried |-> fixed_selector]
        ELSE IF matched = {}
        THEN [ok |-> FALSE, nodes |-> {}, exc |-> "PlanExecutionError",
              queried |-> fixed_selector]
        ELSE IF Cardinality(matched) > 1 /\ allow_multiple
        THEN [ok |-> TRUE, nodes |-> {FirstOf(matched)}, exc |-> "none",
              queried |-> fixed_selector]
        ELSE [ok |-> TRUE, nodes |-> matched, exc |-> "none",
              queried |-> fixed_selector]

TheNode(loc) == CHOOSE n \in loc.nodes : TRUE
Strict(loc) == Cardinality(loc.nodes) = 1

-----------------------------------------------------------------------------
(* Driver reads *)

\* text content of a node that is not a form field
NodeText(n) == NodeId(n)

\* locator.input_value(): [ok, value]; fails on several nodes (strict mode)
\* and on nodes that are not input/textarea/select
InputValue(pg, loc) ==
    IF Strict(loc) /\ TheNode(loc) \in WritableNodes
    THEN [ok |-> TRUE, value |-> pg[TheNode(loc)]]
    ELSE [ok |-> FALSE, value |-> None]

\* locator.text_content(): [ok, value]; fails on several nodes (strict mode)
TextContent(pg, loc) ==
    IF ~Strict(loc) THEN [ok |-> FALSE, value |-> None]
    ELSE IF NodeTag(TheNode(loc)) = "button"
    THEN [ok |-> TRUE, value |-> NodeText(TheNode(loc))]
    ELSE [ok |-> TRUE, value |-> <<>>]

-----------------------------------------------------------------------------
(* Action handlers.  Each yields the set of outcomes                       *)
(* [ok, page, exc]: the page after the handler, or the exception raised.   *)

Success(pg) == [ok |-> TRUE, page |-> pg, exc |-> "none"]
Failure(pg, exc) == [ok |-> FALSE, page |-> pg, exc |-> exc]

\* a driver call that acts on the live page can always time out
DriverMayFail(pg, outcome) == {outcome, Failure(pg, "PlaywrightError")}

\* _handle_click
HandleClick(pg, step) ==
    LET loc == EnsureLocator(pg, step.selector, TRUE)
    IN  IF ~loc.ok THEN {Failure(pg, loc.exc)}
        ELSE DriverMayFail(pg, Success(pg))

\* _handle_fill
HandleFill(pg, step) ==
    IF step.value = None THEN {Failure(pg, "PlanExecutionError")}
    ELSE LET loc == EnsureLocator(pg, step.selector, FALSE)
         IN  IF ~loc.ok THEN {Failure(pg, loc.exc)}
             ELSE IF ~Strict(loc) THEN {Failure(pg, "PlaywrightError")}
             ELSE IF NodeTag(TheNode(loc)) # "input"
             THEN {Failure(pg, "PlaywrightError")}
             ELSE DriverMayFail(pg,
                     Success([pg EXCEPT ![TheNode(loc)] = step.value]))

\* locator.select_option(v), then select_option(label=v), on a native select
NativeSelect(pg, n, v) ==
    LET byValue == {i \in 1..Len(Options) :
                       Options[i].value = v \/ Options[i].text = v}
        pick == CHOOSE i \in byValue : \A j \in byValue : i <= j
    IN  IF byValue = {} THEN {Failure(pg, "PlaywrightError")}
        ELSE {Success([pg EXCEPT ![n] = Options[pick].value])}

\* the custom-widget branch once the short-circuit did not apply: the
\* widget commits the requested text, commits another of its options,
\* leaves the field as it was, or no strategy works
CustomDropdown(pg, n, v) ==
    IF NodeTag(n) = "input"
    THEN {Success([pg EXCEPT ![n] = v]), Success([pg EXCEPT ![n] = Vz]),
          Success(pg), Failure(pg, "PlanExecutionError"),
          Failure(pg, "PlaywrightError")}
    ELSE {Success(pg), Failure(pg, "PlanExecutionError"),
          Failure(pg, "PlaywrightError")}

\* _handle_select
HandleSelect(pg, step) ==
    IF step.value = None THEN {Failure(pg, "PlanExecutionError")}
    ELSE LET loc == EnsureLocator(pg, step.selector, FALSE)
         IN  IF ~loc.ok THEN {Failure(pg, loc.exc)}
             ELSE IF ~Strict(loc) THEN {Failure(pg, "PlaywrightError")}
             ELSE IF NodeTag(TheNode(loc)) = "select"
             THEN NativeSelect(pg, TheNode(loc), step.value)
             ELSE LET iv == InputValue(pg, loc)
                  IN  IF iv.ok /\ TruthyStr(iv.value) THEN {Success(pg)}
                      ELSE CustomDropdown(pg, TheNode(loc), step.value)

\* _handle_wait_for_timeout: int(step.value or 1000)
HandleWaitForTimeout(pg, step) ==
    IF TruthyStr(step.value) /\ \E i \in 1..Len(step.value) : ~IsDigit(step.value[i])
    THEN {Failure(pg, "PlanExecutionError")}
    ELSE {Success(pg)}

\* ACTION_RUNNERS and the dispatch in execute_plan_on_page
RunHandler(pg, step) ==
    CASE step.action = "click" -> HandleClick(pg, step)
      [] step.action = "fill" -> HandleFill(pg, step)
      [] step.action = "select_option" -> HandleSelect(pg, step)
      [] step.action = "wait_for_timeout" -> HandleWaitForTimeout(pg, step)

-----------------------------------------------------------------------------
(* execute_plan_on_page *)

WriteActions == {"fill", "select_option"}

\* the selector test of the skip filter
SelectorOverlap(sel, key) ==
    sel = key \/ IsSubstr(sel, key) \/ IsSubstr(key, sel)

\* the value test of the skip filter
ValueOverlap(v, fv) ==
    \/ Lower(v) = Lower(fv)
    \/ IsSubstr(Lower(v), Lower(fv))
    \/ IsSubstr(Lower(fv), Lower(v))

\* the body of the filter loop: is this step dropped?
AlreadyFilled(step, ff) ==
    /\ step.action \in WriteActions
    /\ TruthyStr(step.selector)
    /\ \E key \in DOMAIN ff :
          /\ SelectorOverlap(step.selector, key)
          /\ IF TruthyStr(step.value) /\ TruthyStr(ff[key])
             THEN ValueOverlap(step.value, ff[key])
             ELSE TRUE

RECURSIVE Ascending(_)
Ascending(S) ==
    IF S = {} THEN <<>>
    ELSE LET m == CHOOSE i \in S : \A j \in S : i <= j
         IN  <<m>> \o Ascending(S \ {m})

RECURSIVE Descending(_)
Descending(S) ==
    IF S = {} THEN <<>>
    ELSE LET m == CHOOSE i \in S : \A j \in S : j <= i
         IN  <<m>> \o Descending(S \ {m})

\* mutant: the kept steps are collected in reverse plan order
FilterStepsDescending(steps, ff) ==
    Descending({i \in 1..Len(steps) : ~AlreadyFilled(steps[i], ff)})

\* filtered_steps, as the indices of the steps of plan.steps that are kept
FilterSteps(steps, ff) ==
    Ascending({i \in 1..Len(steps) : ~AlreadyFilled(steps[i], ff)})

\* mutant: the keywords are looked for without lower-casing
NeedsSubmitDelayCaseSensitive(step) ==
    /\ step.action = "click"
    /\ TruthyStr(step.selector)
    /\ \/ IsSubstr(KwSubmit, step.selector)
       \/ IsSubstr(KwSubmit, IF TruthyStr(step.value) THEN step.value ELSE <<>>)
       \/ \E keyword \in {KwSubmit, KwApplication} :
             IsSubstr(keyword, step.selector)

\* the condition of the 5 second delay before a submitting click
NeedsSubmitDelay(step) ==
    /\ step.action = "click"
    /\ TruthyStr(step.selector)
    /\ \/ IsSubstr(KwSubmit, Lower(step.selector))
       \/ IsSubstr(KwSubmit, Lower(IF TruthyStr(step.value) THEN step.value ELSE <<>>))
       \/ \E keyword \in {KwSubmit, KwApplication} :
             IsSubstr(keyword, Lower(step.selector))

SubmitDelayMs == 5000

\* the re-read after a write step: the dict after the bookkeeping
PostWrite(pg, step, ff) ==
    IF ~(step.action \in WriteActions /\ TruthyStr(step.selector)) THEN ff
    ELSE LET loc == EnsureLocator(pg, step.selector, FALSE)
             iv == IF loc.ok THEN InputValue(pg, loc) ELSE [ok |-> FALSE, value |-> None]
             tc == IF loc.ok THEN TextContent(pg, loc) ELSE [ok |-> FALSE, value |-> None]
             value == IF iv.ok THEN iv.value ELSE IF tc.ok THEN tc.value ELSE <<>>
         IN  IF loc.ok /\ (iv.ok \/ tc.ok) /\ value # <<>> /\ Strip(value) # <<>>
             THEN [k \in DOMAIN ff \cup {step.selector} |->
                      IF k = step.selector THEN Strip(value) ELSE ff[k]]
             ELSE ff

\* mutant: the loop catches the exception and goes on with the next step
OnHandlerFailureSwallowed(exc) == [pc |-> "loop", raised |-> "none", skip |-> 1]

\* a handler raised: nothing in the loop catches it
OnHandlerFailure(exc) == [pc |-> "failed", raised |-> exc, skip |-> 0]

CurrentIndex == filtered_steps[idx]
CurrentStep == plan.steps[CurrentIndex]
Event(ev, i) == [ev |-> ev, i |-> i, ms |-> 0]
WaitEvent(i) == [ev |-> "wait", i |-> i, ms |-> SubmitDelayMs]

\* entry of execute_plan_on_page: the filter loop over plan.steps
BeginExecute ==
    /\ pc = "call"
    /\ filtered_steps' = FilterSteps(plan.steps, filled_fields)
    /\ idx' = 1
    /\ waited' = FALSE
    /\ trace' = <<>>
    /\ pc' = "loop"
    /\ UNCHANGED <<page, plan, filled_fields, raised, run, prevPage, prevTrace,
                   mainVars, parseVars, callVars, snapVars, browserVars>>

\* await page.wait_for_timeout(5000) before a submitting click
SubmitWait ==
    /\ pc = "loop"
    /\ idx <= Len(filtered_steps)
    /\ NeedsSubmitDelay(CurrentStep)
    /\ ~waited
    /\ waited' = TRUE
    /\ trace' = Append(trace, WaitEvent(CurrentIndex))
    /\ UNCHANGED <<page, plan, filled_fields, filtered_steps, idx, pc, raised,
                   run, prevPage, prevTrace, mainVars, parseVars, callVars, snapVars, browserVars>>

\* the handler of the current step runs
Dispatch ==
    /\ pc = "loop"
    /\ idx <= Len(filtered_steps)
    /\ NeedsSubmitDelay(CurrentStep) => waited
    /\ \E o \in RunHandler(page, CurrentStep) :
          IF o.ok
          THEN /\ page' = o.page
               /\ pc' = "record"
               /\ trace' = Append(trace, Event("dispatch", CurrentIndex))
               /\ UNCHANGED <<raised, idx, waited>>
          ELSE LET f == OnHandlerFailure(o.exc)
               IN  /\ page' = o.page
                   /\ pc' = f.pc
                   /\ raised' = f.raised
                   /\ idx' = idx + f.skip
                   /\ waited' = (waited /\ f.skip = 0)
                   /\ trace' = Append(Append(trace, Event("dispatch", CurrentIndex)),
                                      Event("raise", CurrentIndex))
    /\ UNCHANGED <<plan, filled_fields, filtered_steps, run, prevPage, prevTrace,
                   mainVars, parseVars, callVars, snapVars, browserVars>>

\* the bookkeeping after the handler returned
Record ==
    /\ pc = "record"
    /\ filled_fields' = PostWrite(page, CurrentStep, filled_fields)
    /\ trace' = Append(trace, Event("done", CurrentIndex))
    /\ idx' = idx + 1
    /\ waited' = FALSE
    /\ pc' = "loop"
    /\ UNCHANGED <<page, plan, filtered_steps, raised, run, prevPage, prevTrace,
                   mainVars, parseVars, callVars, snapVars, browserVars>>

\* return filled_fields
Return ==
    /\ pc = "loop"
    /\ idx > Len(filtered_steps)
    /\ pc' = "returned"
    /\ UNCHANGED <<page, plan, filled_fields, filtered_steps, idx, waited, raised,
                   trace, run, prevPage, prevTrace, mainVars, parseVars, callVars, snapVars, browserVars>>

\* the caller executes the same plan again, passing the returned dict
Rerun ==
    /\ mpc = "none"
    /\ pc = "returned"
    /\ run = 1
    /\ run' = 2
    /\ prevPage' = page
    /\ prevTrace' = trace
    /\ pc' = "call"
    /\ UNCHANGED <<page, plan, filled_fields, filtered_steps, idx, waited, raised,
                   trace, mainVars, parseVars, callVars, snapVars, browserVars>>

-----------------------------------------------------------------------------
(* Inputs of execute_plan_on_page *)

Step(a, sel, v) == [action |-> a, selector |-> sel, value |-> v]

\* steps a validated plan can hold
StepPool ==
    { Step("fill", SelA, Vx), Step("fill", SelA, Vy), Step("fill", SelA, VEmpty),
      Step("fill", SelAB, VX), Step("fill", SelA, None),
      Step("fill", SelInput, Vx), Step("fill", SelMissing, Vx),
      Step("select_option", SelC, Vxy), Step("select_option", SelAB, Vxy),
      Step("click", SelSubmit, None), Step("click", SelNext, VSUBMIT),
      Step("click", SelNext, None), Step("click", SelApply, None),
      Step("click", SelDigit, None), Step("click", SelQuote, None),
      Step("wait_for_timeout", None, None) }

RECURSIVE SeqsUpTo(_, _)
SeqsUpTo(S, n) ==
    IF n = 0 THEN {<<>>}
    ELSE LET shorter == SeqsUpTo(S, n - 1)
         IN  shorter \cup {Append(q, x) : q \in {r \in shorter : Len(r) = n - 1}, x \in S}

\* the page as loaded: text inputs empty, the select on its first option
FreshPage == [n \in WritableNodes |-> IF n = "c" THEN Options[1].value ELSE <<>>]

\* dicts a caller passes as filled_fields (None becomes the empty dict)
EmptyDict == [k \in {} |-> <<>>]
InitialDicts ==
    { EmptyDict,
      [k \in {SelA} |-> Vx],
      [k \in {SelAB} |-> Vxy],
      [k \in {SelA, SelC} |-> IF k = SelA THEN Vy ELSE Vz] }

\* the page agrees with a dict that was read from it
PageFor(ff) ==
    [n \in WritableNodes |->
        IF (<<"#">> \o NodeId(n)) \in DOMAIN ff THEN ff[<<"#">> \o NodeId(n)]
        ELSE FreshPage[n]]

NoResult == [kind |-> "none", exc |-> "none", msg |-> "",
             plan |-> [summary |-> <<>>, assumptions |-> <<>>, steps |-> <<>>, status |-> <<>>]]
NoRaw == [kind |-> "none"]
NoCall == [fn |-> "none"]
NoRet == [kind |-> "none"]
NoWidget == [pc |-> "none"]
NoSnapshot == [k \in {} |-> <<>>]   \* html before the first page.content()

\* browser.py as imported: the three globals are None and no tool call runs
Tasks == {"t1", "t2"}
IdleTask == [pc |-> "idle", calls |-> 0, browser |-> 0]
BrowserIdle ==
    /\ _playwright = 0
    /\ _browser = 0
    /\ _page = 0
    /\ tasks = [t \in Tasks |-> IdleTask]
    /\ interval = [minted |-> 0, launched |-> 0, pages |-> {}]

Init ==
    /\ plan \in {[status |-> "pending", steps |-> q] : q \in SeqsUpTo(StepPool, MaxSteps)}
    /\ filled_fields \in InitialDicts
    /\ page = PageFor(filled_fields)
    /\ filtered_steps = <<>>
    /\ idx = 1
    /\ pc = "call"
    /\ waited = FALSE
    /\ raised = "none"
    /\ trace = <<>>
    /\ run = 1
    /\ prevPage = page
    /\ prevTrace = <<>>
    /\ iteration = 0
    /\ mpc = "none"
    /\ raw = NoRaw
    /\ result = NoResult
    /\ call = NoCall
    /\ ret = NoRet
    /\ widget = NoWidget
    /\ html = NoSnapshot
    /\ planned = 0
    /\ aria_hidden = FALSE
    /\ BrowserIdle

Next ==
    \/ BeginExecute
    \/ SubmitWait
    \/ Dispatch
    \/ Record
    \/ Return
    \/ Rerun

Spec == Init /\ [][Next]_vars

-----------------------------------------------------------------------------
(* Properties of execute_plan_on_page *)

\* positions of the trace at which a handler was invoked
Dispatches(tr) == {p \in 1..Len(tr) : tr[p].ev = "dispatch"}

\* number of fill/select_option handler invocations in a trace
Writes(tr) ==
    Cardinality({p \in Dispatches(tr) : plan.steps[tr[p].i].action \in WriteActions})

\* the value a selector's field holds on the page right now
FieldValue(pg, sel) == pg[FirstOf(Query(FixSelector(sel)))]

\* the overlap the skip rule is stated with: an overlapping key whose value
\* equals, contains or is contained in the (non-empty) requested value,
\* ignoring case
RecordedOverlap(step, ff) ==
    /\ TruthyStr(step.value)
    /\ \E key \in DOMAIN ff :
          /\ SelectorOverlap(step.selector, key)
          /\ ValueOverlap(step.value, ff[key])

\* every write step of the plan requests a non-empty value
RequestsValues ==
    \A i \in 1..Len(plan.steps) :
        plan.steps[i].action \in WriteActions => TruthyStr(plan.steps[i].value)

\* C1: executing the same plan a second time, with the dict the first run
\* returned and the page as the first run left it, ends with the same field
\* values and invokes strictly fewer fill/select_option handlers than the
\* first run did (stated for plans that request non-empty values and whose
\* first run wrote at least once).
C1_SecondRunIdempotent ==
    (pc = "returned" /\ run = 2 /\ RequestsValues /\ Writes(prevTrace) > 0)
        => (page = prevPage /\ Writes(trace) < Writes(prevTrace))

\* C2: whenever a fill or select_option step is about to run, filled_fields
\* as it is at that moment holds no overlapping selector with an overlapping
\* value (otherwise the step would have been skipped).
C2_SkippedWhenRecordedAtRunTime ==
    (pc = "loop" /\ idx <= Len(filtered_steps)
        /\ CurrentStep.action \in WriteActions)
        => ~RecordedOverlap(CurrentStep, filled_fields)

\* C3: right after the bookkeeping of a successful fill or select_option
\* step, filled_fields[step.selector] is the value the field now holds.
C3_RecordEqualsReread ==
    (pc = "loop" /\ trace # <<>> /\ trace[Len(trace)].ev = "done"
        /\ plan.steps[trace[Len(trace)].i].action \in WriteActions)
        => LET step == plan.steps[trace[Len(trace)].i]
           IN  /\ step.selector \in DOMAIN filled_fields
               /\ filled_fields[step.selector] = FieldValue(page, step.selector)

\* C5: the handlers are invoked on steps of the plan in increasing plan
\* position, and a step is dispatched only after the handler and the
\* bookkeeping of every step dispatched before it have finished.
C5_InOrderOneAtATime ==
    \A q \in Dispatches(trace) :
        /\ trace[q].i \in 1..Len(plan.steps)
        /\ \A p \in Dispatches(trace) :
              p < q => /\ trace[p].i < trace[q].i
                       /\ \E r \in (p + 1)..(q - 1) :
                             trace[r] = Event("done", trace[p].i)

C5_Witness ==
    /\ Cardinality(Dispatches(trace)) >= 2
    /\ pc = "returned"

\* C6: when a handler raises, the exception leaves execute_plan_on_page,
\* filled_fields keeps what the earlier steps recorded, and nothing runs
\* afterwards.
C6_FailurePropagates ==
    [][ /\ (Len(trace') > Len(trace) /\ trace'[Len(trace')].ev = "raise")
            => (pc' = "failed" /\ raised' # "none"
                /\ filled_fields' = filled_fields)
        /\ (\E p \in 1..Len(trace) : trace[p].ev = "raise")
            => (trace' = trace /\ filled_fields' = filled_fields
                /\ pc' = "failed" /\ raised' = raised) ]_vars

C6_Witness ==
    /\ pc = "failed"
    /\ raised = "PlanExecutionError"
    /\ \E p \in 1..Len(trace) :
          /\ trace[p].ev = "done"
          /\ plan.steps[trace[p].i].action \in WriteActions
          /\ plan.steps[trace[p].i].selector \in DOMAIN filled_fields

\* a click whose selector or value contains 'submit', ignoring case
SuggestsSubmit(step) ==
    /\ step.action = "click"
    /\ \/ IsSubstr(KwSubmit, Lower(step.selector))
       \/ (step.value # None /\ IsSubstr(KwSubmit, Lower(step.value)))

\* C7: every invocation of the click handler on a step whose selector or
\* value contains 'submit' is immediately preceded by the completed
\* 5000 ms wait of that same step.
C7_WaitBeforeSubmitClick ==
    \A q \in Dispatches(trace) :
        SuggestsSubmit(plan.steps[trace[q].i])
            => /\ q > 1
               /\ trace[q - 1] = [ev |-> "wait", i |-> trace[q].i, ms |-> 5000]

C7_Witness ==
    \E q \in Dispatches(trace) :
        /\ plan.steps[trace[q].i].action = "click"
        /\ ~IsSubstr(KwSubmit, Lower(plan.steps[trace[q].i].selector))
        /\ SuggestsSubmit(plan.steps[trace[q].i])
        /\ pc = "returned"

\* a selector made of '#', a digit and any remainder
HashDigit(sel) == Len(sel) > 1 /\ sel[1] = "#" /\ IsDigit(sel[2])

\* some node of the page carries this id attribute
HasNodeWithId(id) == \E n \in Nodes : NodeId(n) = id

\* C12: for the selector of the step about to run, _ensure_locator queries
\* [id="<everything after #>"] when the selector is '#' followed by a digit,
\* and then succeeds if a node with that id exists; any other selector is
\* queried unchanged.
C12_DigitIdRewritten ==
    (pc = "loop" /\ idx <= Len(filtered_steps) /\ CurrentStep.selector # None)
        => LET sel == CurrentStep.selector
               loc == EnsureLocator(page, sel, TRUE)
           IN  IF HashDigit(sel)
               THEN /\ loc.queried = IdAttrPrefix \o Tail(sel) \o IdAttrSuffix
                    /\ HasNodeWithId(Tail(sel)) => loc.ok
               ELSE loc.queried = sel

\* the nodes the step's selector matches on the live page
LiveMatches(sel) ==
    IF SelectorSyntaxOk(FixSelector(sel)) THEN Query(FixSelector(sel)) ELSE {}

\* C13: a step whose selector matches several live nodes and that is
\* otherwise well formed can complete: its handler has a successful outcome,
\* acting on the first match.
C13_AmbiguityNotFatal ==
    (/\ pc = "loop" /\ idx <= Len(filtered_steps)
     /\ CurrentStep.selector # None
     /\ CurrentStep.action \in WriteActions => CurrentStep.value # None
     /\ Cardinality(LiveMatches(CurrentStep.selector)) > 1)
        => \E o \in RunHandler(page, CurrentStep) : o.ok

\* The text of a PlanExecutionError, as the pieces its (f-)string joins: a
\* literal, or a field of the step or a local that is interpolated.  A
\* literal that spells the action's name is marked as such.
Lit(text) == [lit |-> text, arg |-> "none"]
ActionLit(text) == [lit |-> text, arg |-> "action"]
Arg(name) == [lit |-> "", arg |-> name]

\* the message of the PlanExecutionError the handler of step raises on pg
PlanExecutionMessage(pg, step) ==
    CASE step.action = "wait_for_timeout" ->
            <<ActionLit("wait_for_timeout"), Lit(" requires an integer 'value' in ms.")>>
      [] step.action = "fill" /\ step.value = None ->
            <<ActionLit("Fill"), Lit(" step requires a 'value'.")>>
      [] step.action = "select_option" /\ step.value = None ->
            <<ActionLit("select_option"), Lit(" step requires a 'value'.")>>
      [] OTHER ->
            IF ~EnsureLocator(pg, step.selector,
                              step.action = "click").ok
            THEN <<Lit("Selector '"), Arg("selector"), Lit("' (fixed to '"),
                   Arg("fixed_selector"), Lit("') did not match any nodes.")>>
            ELSE <<Lit("Could not find or click option '"), Arg("value"),
                   Lit("' in dropdown '"), Arg("selector"), Lit("'")>>

Interpolates(msg, name) == \E p \in 1..Len(msg) : msg[p].arg = name

\* C23: a PlanExecutionError that ends execute_plan_on_page carries the
\* selector or the action of the failing step, and that step's index.
C23_ErrorNamesStepAndIndex ==
    (pc = "failed" /\ raised = "PlanExecutionError")
      => LET msg == PlanExecutionMessage(page, CurrentStep)
         IN  /\ Interpolates(msg, "selector") \/ Interpolates(msg, "action")
             /\ Interpolates(msg, "index")

\* the steps of the plan the filter dropped
Skipped == {i \in 1..Len(plan.steps) : \A p \in 1..Len(filtered_steps) : filtered_steps[p] # i}

\* C28: when the filter loop has run, every step it dropped is a fill or
\* select_option step with a non-empty requested value, and filled_fields
\* holds an entry with an overlapping selector whose value overlaps that
\* requested value.
C28_SkipOnlyOnOverlap ==
    (pc = "loop" /\ trace = <<>>)
      => \A i \in Skipped :
            LET step == plan.steps[i]
            IN  /\ step.action \in WriteActions
                /\ TruthyStr(step.value)
                /\ \E key \in DOMAIN filled_fields :
                      /\ SelectorOverlap(step.selector, key)
                      /\ ValueOverlap(step.value, filled_fields[key])

-----------------------------------------------------------------------------
(* mvp.main: the planning session *)

MAX_PLAN_ITERATIONS == 4

\* extract_filled_fields: '#<id>' -> stripped value, for the fields of the
\* semantic DOM that hold a non-blank value
ExtractFilledFields(pg) ==
    LET found == {n \in WritableNodes :
                     /\ NodeId(n) # <<>>
                     /\ Query(<<"#">> \o NodeId(n)) # {}
                     /\ Strip(pg[FirstOf(Query(<<"#">> \o NodeId(n)))]) # <<>>}
        keyOf(n) == <<"#">> \o NodeId(n)
    IN  [k \in {keyOf(n) : n \in found} |->
            LET n == CHOOSE m \in found : keyOf(m) = k
            IN  Strip(pg[FirstOf(Query(k))])]

\* mutant: the dict read from the page replaces the tracked one
MergeFilledReplacing(ff, current_filled) == current_filled

\* filled_fields.update(current_filled)
MergeFilled(ff, current_filled) ==
    [k \in DOMAIN ff \cup DOMAIN current_filled |->
        IF k \in DOMAIN current_filled THEN current_filled[k] ELSE ff[k]]

\* form_parser.is_visible: a tag marked aria-hidden="true" is left out of the
\* semantic DOM
SemanticFields == IF aria_hidden THEN {} ELSE {n \in Nodes : NodeTag(n) \in {"input", "select"}}

\* _interactive_summary: inputs + textareas + selects of the snapshot
InteractiveCount(snapshot) == Cardinality(SemanticFields)

\* extract_filled_fields(page, extract_semantic_dom(html))
CurrentFilled(pg, snapshot) ==
    IF SemanticFields = {} THEN EmptyDict ELSE ExtractFilledFields(pg)

SessionStepPool ==
    { Step("fill", SelA, Vx), Step("fill", SelA, VEmpty), Step("fill", SelAB, VX),
      Step("fill", SelAById, Vy), Step("fill", SelMissing, Vx),
      Step("select_option", SelC, Vxy), Step("click", SelSubmit, None) }

PlanStatuses == {"pending", "confirmed", "blocked", "error"}

\* plans parse_playwright_plan can return to the session
PlannerPlans ==
    {pl \in [status : PlanStatuses, steps : SeqsUpTo(SessionStepPool, MaxSessionSteps)] :
        pl.status = "pending" => pl.steps # <<>>}

\* the status override: confirmed while interactive fields remain
OverrideStatus(pl, interactive_count) ==
    IF pl.status = "confirmed" /\ interactive_count > 0
    THEN [pl EXCEPT !.status = "pending"]
    ELSE pl

EXECUTE_PLAN == TRUE

\* mutant: a plan without steps is handed to execute_plan_on_page
StopsLoopOnStatusOnly(pl) == pl.status \in {"confirmed", "blocked"}

\* the three break tests that precede execute_plan_on_page
StopsLoop(pl) ==
    \/ pl.status \in {"confirmed", "blocked"}
    \/ pl.steps = <<>>
    \/ ~EXECUTE_PLAN

\* mutant: the snapshot of the round before is used again
PageContentStale(pg, previous) == IF previous = NoSnapshot THEN pg ELSE previous

\* html = await page.content()
PageContent(pg, previous) == pg

\* one pass of the for loop up to the call of execute_plan_on_page
RoundStart ==
    /\ mpc = "round"
    /\ iteration <= MAX_PLAN_ITERATIONS
    /\ html' = PageContent(page, html)
    /\ LET merged == MergeFilled(filled_fields, CurrentFilled(page, html'))
       IN  /\ filled_fields' = merged
           /\ planned' = planned + 1
           /\ \/ \* generate_plan raised ActionParserError
                 /\ mpc' = "crashed"
                 /\ raised' = "ActionParserError"
                 /\ UNCHANGED <<plan, pc>>
              \/ \E generated \in PlannerPlans :
                    LET pl == OverrideStatus(generated, InteractiveCount(html'))
                    IN  /\ plan' = pl
                        /\ raised' = raised
                        /\ IF StopsLoop(pl)
                           THEN mpc' = "done" /\ pc' = pc
                           ELSE mpc' = "exec" /\ pc' = "call"
    /\ UNCHANGED <<page, filtered_steps, idx, waited, trace, run, prevPage,
                   prevTrace, iteration, parseVars, callVars, aria_hidden, browserVars>>

\* execute_plan_on_page returned: filled_fields is rebound, next iteration
RoundEnd ==
    /\ mpc = "exec"
    /\ pc = "returned"
    /\ iteration' = iteration + 1
    /\ mpc' = "round"
    /\ pc' = "idle"
    /\ UNCHANGED <<page, plan, filled_fields, filtered_steps, idx, waited, raised,
                   trace, run, prevPage, prevTrace, parseVars, callVars, snapVars, browserVars>>

\* the else branch of the for loop
LoopExhausted ==
    /\ mpc = "round"
    /\ iteration > MAX_PLAN_ITERATIONS
    /\ mpc' = "done"
    /\ UNCHANGED <<execVars, iteration, parseVars, callVars, snapVars, browserVars>>

\* an exception of execute_plan_on_page is not caught by main
MainPropagates ==
    /\ mpc = "exec"
    /\ pc = "failed"
    /\ mpc' = "crashed"
    /\ UNCHANGED <<execVars, iteration, parseVars, callVars, snapVars, browserVars>>

SessionInit ==
    /\ page \in {FreshPage, [FreshPage EXCEPT !["ab"] = Vxy]}
    /\ plan = [status |-> "none", steps |-> <<>>]   \* plan = None
    /\ filled_fields = EmptyDict
    /\ filtered_steps = <<>>
    /\ idx = 1
    /\ pc = "idle"
    /\ waited = FALSE
    /\ raised = "none"
    /\ trace = <<>>
    /\ run = 1
    /\ prevPage = FreshPage
    /\ prevTrace = <<>>
    /\ iteration = 1
    /\ mpc = "round"
    /\ raw = NoRaw
    /\ result = NoResult
    /\ call = NoCall
    /\ ret = NoRet
    /\ widget = NoWidget
    /\ html = NoSnapshot
    /\ planned = 0
    /\ aria_hidden \in BOOLEAN
    /\ BrowserIdle

SessionNext ==
    \/ RoundStart
    \/ BeginExecute
    \/ SubmitWait
    \/ Dispatch
    \/ Record
    \/ Return
    \/ RoundEnd
    \/ LoopExhausted
    \/ MainPropagates

SessionSpec == SessionInit /\ [][SessionNext]_vars

\* C4: in a session the set of recorded selectors never loses a member,
\* whichever step of main or of execute_plan_on_page is taken.
C4_KeysNeverShrink ==
    [][DOMAIN filled_fields \subseteq DOMAIN filled_fields']_vars

C4_Witness ==
    /\ mpc = "exec"
    /\ pc = "returned"
    /\ iteration = 3
    /\ {SelA, SelAById, SelAB} \subseteq DOMAIN filled_fields

\* C11: in a session, a plan held by main with status 'pending' has at least
\* one step, as returned by the planner and after the status override.
C11_PendingHasSteps ==
    plan.status = "pending" => Len(plan.steps) >= 1

\* C21: a session requests at most MAX_PLAN_ITERATIONS plans; a round ends the
\* loop exactly when its plan (as main holds it) is confirmed, blocked or has
\* no steps; and once the 4th round's execution has returned the only step
\* left is the loop's exit, which requests no plan.
C21_AtMostFourRounds ==
    [][ /\ planned' <= 4
        /\ (planned' = planned + 1 /\ mpc' # "crashed")
              => (mpc' = "done" <=> \/ plan'.status \in {"confirmed", "blocked"}
                                    \/ plan'.steps = <<>>)
        /\ (mpc = "round" /\ planned = 4)
              => (mpc' = "done" /\ planned' = planned /\ plan' = plan) ]_vars

\* the loop ran out: four plans were requested and executed
C21_Witness ==
    /\ mpc = "done"
    /\ planned = 4
    /\ iteration = 5
    /\ plan.status = "pending"

\* the loop was left at a confirmed plan (no interactive field in the snapshot)
ConfirmedStopReached == mpc = "done" /\ plan.status = "confirmed" /\ planned = 2

\* C22: every plan request is made with the page content as it is after the
\* last step executed so far; between taking the snapshot and the request no
\* step runs.
C22_SnapshotAfterLastStep ==
    [][planned' = planned + 1 => (html' = page /\ page' = page)]_vars

\* a second-round request on a page that the first round's steps changed
C22_Witness ==
    /\ planned = 2
    /\ mpc = "exec"
    /\ pc = "call"
    /\ html = page
    /\ page # FreshPage
    /\ page # [FreshPage EXCEPT !["ab"] = Vxy]

\* C29: execute_plan_on_page is entered only with a plan whose status, after
\* the override, is 'pending'.
C29_OnlyPendingExecuted ==
    mpc = "exec" => plan.status = "pending"

-----------------------------------------------------------------------------
(* JSON documents, as json.loads returns them.  Every value is a record    *)
(* with the same fields: t the type, n the number (1/0 for a boolean),     *)
(* s the characters of a string, l the items of a list, o the (key, value) *)
(* pairs of an object in document order.                                   *)

JV(t, n, s, l, o) == [t |-> t, n |-> n, s |-> s, l |-> l, o |-> o]
JNull == JV("null", 0, <<>>, <<>>, <<>>)
JBool(b) == JV("bool", IF b THEN 1 ELSE 0, <<>>, <<>>, <<>>)
JNum(n) == JV("num", n, <<>>, <<>>, <<>>)
JStr(s) == JV("str", 0, s, <<>>, <<>>)
JList(l) == JV("list", 0, <<>>, l, <<>>)
JObj(o) == JV("obj", 0, <<>>, <<>>, o)

\* key in dict
Has(j, key) == \E i \in 1..Len(j.o) : j.o[i][1] = key

\* dict.get(key): the value of the key (the last one wins), else None
Get(j, key) ==
    IF Has(j, key)
    THEN LET last == CHOOSE i \in 1..Len(j.o) :
                        /\ j.o[i][1] = key
                        /\ \A k \in 1..Len(j.o) : j.o[k][1] = key => k <= i
         IN  j.o[last][2]
    ELSE JNull

\* Python truthiness
Truthy(j) ==
    CASE j.t = "null" -> FALSE
      [] j.t = "bool" -> j.n = 1
      [] j.t = "num" -> j.n # 0
      [] j.t = "str" -> j.s # <<>>
      [] j.t = "list" -> j.l # <<>>
      [] j.t = "obj" -> j.o # <<>>

\* Python `a or b`
PyOr(a, b) == IF Truthy(a) THEN a ELSE b

DigitChar(n) ==
    CASE n = 0 -> "0" [] n = 1 -> "1" [] n = 2 -> "2" [] n = 3 -> "3"
      [] n = 4 -> "4" [] n = 5 -> "5" [] n = 6 -> "6" [] n = 7 -> "7"
      [] n = 8 -> "8" [] n = 9 -> "9"

\* str(value), for the values that reach it (numbers below ten)
PyStr(j) ==
    CASE j.t = "str" -> j.s
      [] j.t = "num" -> <<DigitChar(j.n)>>
      [] j.t = "bool" -> IF j.n = 1 THEN <<"T", "r", "u", "e">>
                         ELSE <<"F", "a", "l", "s", "e">>
      [] j.t = "null" -> <<"N", "o", "n", "e">>
      [] j.t = "list" -> <<"[", ".", "]">>
      [] j.t = "obj" -> <<"{", ".", "}">>

-----------------------------------------------------------------------------
(* action_parser.py *)

AGoto == <<"g", "o", "t", "o">>
AClick == <<"c", "l", "i", "c", "k">>
AFill == <<"f", "i", "l", "l">>
APress == <<"p", "r", "e", "s", "s">>
ASelectOption == <<"s", "e", "l", "e", "c", "t", "_", "o", "p", "t", "i", "o", "n">>
ACheck == <<"c", "h", "e", "c", "k">>
AUncheck == <<"u", "n", "c", "h", "e", "c", "k">>
AWaitForSelector == <<"w", "a", "i", "t", "_", "f", "o", "r", "_",
                      "s", "e", "l", "e", "c", "t", "o", "r">>
AWaitForTimeout == <<"w", "a", "i", "t", "_", "f", "o", "r", "_",
                     "t", "i", "m", "e", "o", "u", "t">>
AUploadFile == <<"u", "p", "l", "o", "a", "d", "_", "f", "i", "l", "e">>

PLAYWRIGHT_ACTIONS ==
    {AGoto, AClick, AFill, APress, ASelectOption, ACheck, AUncheck,
     AWaitForSelector, AWaitForTimeout, AUploadFile}

SPending == <<"p", "e", "n", "d", "i", "n", "g">>
SConfirmed == <<"c", "o", "n", "f", "i", "r", "m", "e", "d">>
SBlocked == <<"b", "l", "o", "c", "k", "e", "d">>
SError == <<"e", "r", "r", "o", "r">>

\* the raw LLM output: an optional code fence around a body that is a
\* JSON document or is not JSON at all.
\*   fence = "none"       body
\*   fence = "both"       ```json \n body \n ```
\*   fence = "open"       ```json \n body
\*   fence = "one_line"   ```body```          (no newline after the fence)
\*   fence = "close"      body \n ```
Raw(fence, valid, doc) == [kind |-> "raw", fence |-> fence, valid |-> valid, doc |-> doc]

\* _strip_code_fence followed by json.loads: [valid, doc]
LoadJsonBlock(r) ==
    CASE r.fence = "one_line" -> [valid |-> FALSE, doc |-> JNull]
      [] r.fence = "close" -> [valid |-> FALSE, doc |-> JNull]
      [] OTHER -> [valid |-> r.valid, doc |-> IF r.valid THEN r.doc ELSE JNull]

NoPlan == [summary |-> <<>>, assumptions |-> <<>>, steps |-> <<>>, status |-> <<>>]
Raise(exc, msg) == [kind |-> "raise", exc |-> exc, msg |-> msg, plan |-> NoPlan]
Returned(pl) == [kind |-> "plan", exc |-> "none", msg |-> "", plan |-> pl]

\* mutant: the selector is required of every step but wait_for_timeout
\* and click
StepErrorClickExempt(step) ==
    IF step.t # "obj" THEN "Step is not an object."
    ELSE IF ~(Get(step, "action").t = "str"
              /\ Get(step, "action").s \in PLAYWRIGHT_ACTIONS)
    THEN "Unsupported action"
    ELSE IF Get(step, "action").s \notin {AWaitForTimeout, AClick}
            /\ ~Truthy(Get(step, "selector"))
    THEN "Step requires a selector."
    ELSE ""

\* the body of the loop over steps_data: the message of the error raised
\* for this step, "" if none
StepError(step) ==
    IF step.t # "obj" THEN "Step is not an object."
    ELSE IF ~(Get(step, "action").t = "str"
              /\ Get(step, "action").s \in PLAYWRIGHT_ACTIONS)
    THEN "Unsupported action"
    ELSE IF Get(step, "action").s \notin {AWaitForTimeout}
            /\ ~Truthy(Get(step, "selector"))
    THEN "Step requires a selector."
    ELSE ""

\* PlaywrightStep(action, selector, value, reason)
ParsedStep(step) ==
    [action |-> Get(step, "action").s, selector |-> Get(step, "selector"),
     value |-> Get(step, "value"), reason |-> Get(step, "reason")]

\* parse_playwright_plan, after payload and plan_data were obtained
ValidatePlanData(plan_data) ==
    LET summary == Strip(PyStr(PyOr(Get(plan_data, "summary"), JStr(<<>>))))
        status == Lower(PyStr(PyOr(Get(plan_data, "status"), JStr(SPending))))
        assumptions == PyOr(Get(plan_data, "assumptions"), JList(<<>>))
        steps_data == PyOr(Get(plan_data, "steps"), JList(<<>>))
        bad == {i \in 1..Len(steps_data.l) : StepError(steps_data.l[i]) # ""}
        first == CHOOSE i \in bad : \A j \in bad : i <= j
    IN  IF summary = <<>> THEN Raise("ActionParserError", "Plan summary is missing.")
        ELSE IF status \notin {SPending, SConfirmed, SBlocked, SError}
        THEN Raise("ActionParserError", "Plan status must be one of")
        ELSE IF assumptions.t # "list"
        THEN Raise("ActionParserError", "Assumptions must be a list of strings.")
        ELSE IF steps_data.t # "list"
        THEN Raise("ActionParserError", "Plan steps field must be a list.")
        ELSE IF steps_data.l = <<>> /\ status = SPending
        THEN Raise("ActionParserError", "Pending plans must include at least one step.")
        ELSE IF bad # {}
        THEN Raise("ActionParserError", StepError(steps_data.l[first]))
        ELSE Returned([summary |-> summary,
                       assumptions |-> [i \in 1..Len(assumptions.l) |->
                                           PyStr(assumptions.l[i])],
                       steps |-> [i \in 1..Len(steps_data.l) |->
                                     ParsedStep(steps_data.l[i])],
                       status |-> status])

\* payload.get("plan") or payload
PlanData(payload) == PyOr(Get(payload, "plan"), payload)

\* parse_playwright_plan
ParsePlaywrightPlan(r) ==
    LET loaded == LoadJsonBlock(r)
    IN  IF ~loaded.valid
        THEN Raise("ActionParserError", "LLM output is not valid JSON")
        ELSE IF loaded.doc.t # "obj"
        THEN Raise("AttributeError", "object has no attribute 'get'")
        ELSE IF PlanData(loaded.doc).t # "obj"
        THEN Raise("AttributeError", "object has no attribute 'get'")
        ELSE ValidatePlanData(PlanData(loaded.doc))

\* the parser is applied to the raw output
ParsePlan ==
    /\ raw.kind = "raw"
    /\ result.kind = "none"
    /\ result' = ParsePlaywrightPlan(raw)
    /\ UNCHANGED <<raw, execVars, mainVars, callVars, snapVars, browserVars>>

-----------------------------------------------------------------------------
(* Raw outputs handed to the parser *)

Absent == JV("absent", 0, <<>>, <<>>, <<>>)

\* an object from (key, value) pairs, the pairs of absent values left out
Obj(pairs) == JObj(SelectSeq(pairs, LAMBDA pr : pr[2].t # "absent"))

StepObj(action, selector) ==
    Obj(<< <<"action", action>>, <<"selector", selector>>, <<"value", JStr(Vx)>> >>)

PayloadStepPool ==
    { StepObj(JStr(AFill), JStr(SelA)),
      StepObj(JStr(AWaitForTimeout), Absent),
      StepObj(JStr(<<"h", "o", "v", "e", "r">>), JStr(SelA)),
      StepObj(JStr(AClick), Absent),
      StepObj(JStr(AClick), JStr(<<>>)),
      StepObj(Absent, JStr(SelA)),
      JStr(AClick) }

SummaryPool == {Absent, JStr(<<" ">>), JStr(<<"s">>)}

StatusPool ==
    {Absent, JStr(SPending), JStr(<<"P", "E", "N", "D", "I", "N", "G">>),
     JStr(SConfirmed), JStr(SBlocked), JStr(<<"d", "o", "n", "e">>)}

AssumptionsPool == {Absent, JList(<<JStr(<<"a">>)>>), JStr(<<"a">>)}

NonListSteps ==
    {Absent, JNull, JObj(<<>>), JObj(<< <<"k", JNum(1)>> >>), JStr(<<>>),
     JStr(<<"a">>), JNum(0), JNum(5), JBool(FALSE), JBool(TRUE)}

StepsPool ==
    NonListSteps \cup {JList(q) : q \in SeqsUpTo(PayloadStepPool, MaxPayloadSteps)}

PlanObjects ==
    {Obj(<< <<"summary", su>>, <<"status", st>>, <<"assumptions", a>>, <<"steps", sp>> >>) :
        su \in SummaryPool, st \in StatusPool, a \in AssumptionsPool, sp \in StepsPool}

\* the plan object itself, or wrapped under "plan", or beside a "plan" key
\* that is null or not an object
Payloads ==
    PlanObjects
    \cup {JObj(<< <<"plan", pd>> >>) : pd \in PlanObjects}
    \cup {JObj(<< <<"plan", w>> >> \o pd.o) :
             w \in {JNull, JStr(<<"a">>), JList(<<JNum(1)>>)},
             pd \in {q \in PlanObjects : Get(q, "assumptions").t = "absent"
                                         /\ Get(q, "steps").t \in {"absent", "null", "list"}
                                         /\ Len(Get(q, "steps").l) <= 1}}
    \cup {JNull, JNum(5), JStr(<<"a">>), JList(<<>>), JList(<<JNum(1)>>), JBool(TRUE)}

Fences == {"none", "both", "open", "one_line", "close"}

RawOutputs ==
    {Raw(f, TRUE, d) : f \in {"none", "both"}, d \in Payloads}
    \cup {Raw(f, TRUE, d) : f \in Fences \ {"none", "both"},
                            d \in {q \in PlanObjects : Get(q, "steps").t = "absent"}}
    \cup {Raw(f, FALSE, JNull) : f \in Fences}

ParseInit ==
    /\ raw \in RawOutputs
    /\ result = NoResult
    /\ call = NoCall
    /\ ret = NoRet
    /\ widget = NoWidget
    /\ html = NoSnapshot
    /\ planned = 0
    /\ aria_hidden = FALSE
    /\ BrowserIdle
    /\ page = FreshPage
    /\ plan = [status |-> "pending", steps |-> <<>>]
    /\ filled_fields = EmptyDict
    /\ filtered_steps = <<>>
    /\ idx = 1
    /\ pc = "idle"
    /\ waited = FALSE
    /\ raised = "none"
    /\ trace = <<>>
    /\ run = 1
    /\ prevPage = FreshPage
    /\ prevTrace = <<>>
    /\ iteration = 0
    /\ mpc = "none"

ParseNext == ParsePlan

ParseSpec == ParseInit /\ [][ParseNext]_vars

-----------------------------------------------------------------------------
(* Properties of parse_playwright_plan *)

Parsed == result.kind # "none"
Rejected == result.kind = "raise" /\ result.exc = "ActionParserError"

\* the object the plan fields are read from, when the payload has one
HasPlanObject ==
    /\ raw.kind = "raw"
    /\ LoadJsonBlock(raw).valid
    /\ LoadJsonBlock(raw).doc.t = "obj"
    /\ PlanData(LoadJsonBlock(raw).doc).t = "obj"

ThePlanObject == PlanData(LoadJsonBlock(raw).doc)

\* status pending, explicit or by default
StatedPending(pd) ==
    \/ ~Has(pd, "status")
    \/ (Get(pd, "status").t = "str" /\ Get(pd, "status").s = SPending)

\* the step list is missing or is the empty list
NoSteps(pd) ==
    \/ ~Has(pd, "steps")
    \/ (Get(pd, "steps").t = "list" /\ Get(pd, "steps").l = <<>>)

StepObjects(pd) ==
    IF Get(pd, "steps").t = "list"
    THEN {Get(pd, "steps").l[i] : i \in 1..Len(Get(pd, "steps").l)} \cap
         {st \in {Get(pd, "steps").l[i] : i \in 1..Len(Get(pd, "steps").l)} : st.t = "obj"}
    ELSE {}

KnownAction(st) ==
    Get(st, "action").t = "str" /\ Get(st, "action").s \in PLAYWRIGHT_ACTIONS

LacksSelector(st) ==
    \/ ~Has(st, "selector")
    \/ (Get(st, "selector").t = "str" /\ Get(st, "selector").s = <<>>)

\* C8: a payload with status pending and no steps, or with a step of an
\* unknown action, or with a step other than wait_for_timeout that has no
\* selector, is rejected with ActionParserError; an otherwise valid payload
\* with status confirmed or blocked and an empty step list is returned as a
\* plan with that status and no steps.
C8_PlanValidation ==
    (Parsed /\ HasPlanObject) =>
        LET pd == ThePlanObject
        IN  /\ (StatedPending(pd) /\ NoSteps(pd)) => Rejected
            /\ (\E st \in StepObjects(pd) : ~KnownAction(st)) => Rejected
            /\ (\E st \in StepObjects(pd) :
                    /\ KnownAction(st)
                    /\ Get(st, "action").s # AWaitForTimeout
                    /\ LacksSelector(st)) => Rejected
            /\ ( /\ Get(pd, "status").t = "str"
                 /\ Get(pd, "status").s \in {SConfirmed, SBlocked}
                 /\ Has(pd, "steps") /\ NoSteps(pd)
                 /\ Get(pd, "summary").t = "str"
                 /\ Strip(Get(pd, "summary").s) # <<>>
                 /\ Get(pd, "assumptions").t \in {"absent", "null", "list"} )
               => ( /\ result.kind = "plan"
                    /\ result.plan.steps = <<>>
                    /\ result.plan.status = Get(pd, "status").s )

C8_Witness ==
    /\ Parsed /\ HasPlanObject /\ Rejected
    /\ Has(ThePlanObject, "status")
    /\ Get(ThePlanObject, "status").s = SConfirmed
    /\ Get(ThePlanObject, "summary").s = <<"s">>
    /\ ~Has(ThePlanObject, "assumptions")
    /\ Get(ThePlanObject, "steps").t = "list"
    /\ Len(Get(ThePlanObject, "steps").l) = 2
    /\ KnownAction(Get(ThePlanObject, "steps").l[1])
    /\ ~LacksSelector(Get(ThePlanObject, "steps").l[1])
    /\ Get(ThePlanObject, "steps").l[2].t = "obj"
    /\ Get(Get(ThePlanObject, "steps").l[2], "action").s = AClick
    /\ LacksSelector(Get(ThePlanObject, "steps").l[2])

\* C9: a payload whose steps field is present and is an object, a string,
\* a number or a boolean is rejected with ActionParserError, whatever its
\* status.
C9_NonListStepsRejected ==
    (Parsed /\ HasPlanObject
        /\ Has(ThePlanObject, "steps")
        /\ Get(ThePlanObject, "steps").t \in {"obj", "str", "num", "bool"})
        => Rejected

\* C10: parse_playwright_plan returns a plan or raises ActionParserError,
\* whatever the raw output is.
C10_OnlyActionParserError ==
    Parsed => (result.kind = "plan" \/ result.exc = "ActionParserError")

-----------------------------------------------------------------------------
(* mcp/tools/actions.py: the candidate selectors of an element.  An        *)
(* element is the record of attributes the page script collected; an       *)
(* absent attribute is the empty sequence.  A selector value is the        *)
(* sequence of the pieces the format string joins.                         *)

Candidate(type, value, priority) ==
    [type |-> type, value |-> value, priority |-> priority]

\* str.split(' ') keeping the non-blank pieces
RECURSIVE SplitOnSpace(_)
SplitOnSpace(str) ==
    IF str = <<>> THEN <<>>
    ELSE IF str[1] = " " THEN SplitOnSpace(Tail(str))
    ELSE LET stops == {i \in 1..Len(str) : str[i] = " "}
             stop == IF stops = {} THEN Len(str) + 1
                     ELSE CHOOSE i \in stops : \A j \in stops : i <= j
         IN  <<SubSeq(str, 1, stop - 1)>> \o SplitOnSpace(SubSeq(str, stop + 1, Len(str)))

\* '.'.join(classes) behind a leading '.'
RECURSIVE DotJoin(_)
DotJoin(classes) ==
    IF classes = <<>> THEN <<>>
    ELSE <<".">> \o classes[1] \o DotJoin(Tail(classes))

\* get_page_snapshot, the selectors of one collected element
SnapshotSelectors(elem_data) ==
    LET classes == SplitOnSpace(elem_data.className)
        two == SubSeq(classes, 1, IF Len(classes) < 2 THEN Len(classes) ELSE 2)
        byId == IF elem_data.id # <<>>
                THEN <<Candidate("id", <<"#">> \o elem_data.id, 1)>> ELSE <<>>
        byName == IF elem_data.name # <<>>
                  THEN <<Candidate("name", <<"[name='">> \o elem_data.name \o <<"']">>, 2)>>
                  ELSE <<>>
        byClass == IF two # <<>>
                   THEN <<Candidate("class", DotJoin(two), 3)>> ELSE <<>>
        byText == IF elem_data.text # <<>> /\ Len(elem_data.text) < 50
                  THEN <<Candidate("text", <<"text=">> \o elem_data.text, 4)>> ELSE <<>>
        byAria == IF elem_data.ariaLabel # <<>>
                  THEN <<Candidate("aria-label",
                                   <<"[aria-label='">> \o elem_data.ariaLabel \o <<"']">>, 5)>>
                  ELSE <<>>
        selectors == byId \o byName \o byClass \o byText \o byAria
        fallback == Candidate("nth-of-type",
                              <<elem_data.tag, ":nth-of-type(", DigitChar(elem_data.index + 1), ")">>, 0)
    IN  [kind |-> "selectors", selectors |-> selectors,
         primary_selector |-> IF selectors # <<>> THEN selectors[1] ELSE fallback]

\* list.sort(key=priority): a stable sort
RECURSIVE SortByPriority(_)
SortByPriority(cands) ==
    IF cands = <<>> THEN <<>>
    ELSE LET least == CHOOSE i \in 1..Len(cands) :
                         /\ \A j \in 1..Len(cands) : cands[i].priority <= cands[j].priority
                         /\ \A j \in 1..(i - 1) : cands[j].priority # cands[i].priority
             rest == [k \in 1..(Len(cands) - 1) |->
                         IF k < least THEN cands[k] ELSE cands[k + 1]]
         IN  <<cands[least]>> \o SortByPriority(rest)

\* generate_robust_selectors: the candidates pushed by the page script, then
\* sorted by priority
GenerateRobustSelectors(el) ==
    LET classes == SplitOnSpace(el.className)
        byId == IF el.id # <<>>
                THEN <<Candidate("id", <<"#">> \o el.id, 1)>> ELSE <<>>
        byName == IF el.name # <<>>
                  THEN <<Candidate("name", <<"[name=\"">> \o el.name \o <<"\"]">>, 2)>>
                  ELSE <<>>
        byData == IF el.dataAttr # <<>>
                  THEN <<Candidate("data-attr", <<"[data-x=\"">> \o el.dataAttr \o <<"\"]">>, 3)>>
                  ELSE <<>>
        byClass == IF classes # <<>>
                   THEN <<Candidate("class", DotJoin(classes), 4)>> ELSE <<>>
        byText == IF el.text # <<>> /\ Len(el.text) < 100
                  THEN <<Candidate("text", <<"text=">> \o el.text, 5)>> ELSE <<>>
        byAria == IF el.ariaLabel # <<>>
                  THEN <<Candidate("aria-label",
                                   <<"[aria-label=\"">> \o el.ariaLabel \o <<"\"]">>, 6)>>
                  ELSE <<>>
        byPath == <<Candidate("css-path",
                              IF el.id # <<>> THEN <<el.tag, "#">> \o el.id
                              ELSE <<"body", " > ", el.tag>>, 7)>>
        pushed == byId \o byName \o byData \o byClass \o byText \o byAria \o byPath
        sorted == SortByPriority(pushed)
    IN  [kind |-> "selectors", selectors |-> sorted, primary_selector |-> sorted[1]]

\* resolve_selector(page, selector).  The first statement calls
\* selector.startswith, which only a str has; a dict or a list of candidates
\* therefore never reaches the loop over the candidates.
ResolveSelector(selector, live) ==
    IF selector.kind # "str"
    THEN [kind |-> "raise", exc |-> "AttributeError", type |-> "none"]
    ELSE [kind |-> "locator", exc |-> "none", type |-> selector.value.type]

\* get_page_snapshot builds the selectors of an element
CallSnapshot ==
    /\ call.fn = "get_page_snapshot"
    /\ ret = NoRet
    /\ ret' = SnapshotSelectors(call.elem)
    /\ UNCHANGED <<call, widget, execVars, mainVars, parseVars, snapVars, browserVars>>

\* generate_robust_selectors is evaluated on an element
CallRobustSelectors ==
    /\ call.fn = "generate_robust_selectors"
    /\ ret = NoRet
    /\ ret' = GenerateRobustSelectors(call.elem)
    /\ UNCHANGED <<call, widget, execVars, mainVars, parseVars, snapVars, browserVars>>

\* resolve_selector is invoked by a tool (click, fill, ...)
CallResolve ==
    /\ call.fn = "resolve_selector"
    /\ ret = NoRet
    /\ ret' = ResolveSelector(call.selector, call.live)
    /\ UNCHANGED <<call, widget, execVars, mainVars, parseVars, snapVars, browserVars>>

ShortText == <<"O", "K">>
Text50 == [i \in 1..50 |-> "w"]
Text100 == [i \in 1..100 |-> "w"]

\* the elements the page script can collect
Elements ==
    [id : {<<>>, <<"a">>}, name : {<<>>, <<"n">>},
     className : {<<>>, <<"k">>, <<"k", " ", " ", "l", " ", "m">>},
     dataAttr : {<<>>, <<"d">>},
     text : {<<>>, ShortText, Text50, Text100}, ariaLabel : {<<>>, <<"l">>},
     tag : {"button"}, index : {0}]

CandidateTypes == {"id", "name", "class", "text", "aria-label"}

\* the arguments callers hand to resolve_selector: a selector string, the
\* list of candidates of a snapshot element, or the element's dict
ResolveArguments ==
    LET withText == {e \in Elements : e.dataAttr = <<>> /\ e.className = <<>>
                                       /\ e.text \in {<<>>, ShortText}}
    IN  {[kind |-> "str", value |-> SnapshotSelectors(e).primary_selector,
          elem |-> e] : e \in withText}
        \cup {[kind |-> k, value |-> SnapshotSelectors(e).primary_selector,
               elem |-> e] : k \in {"dict", "list"}, e \in withText}

QuiescentEngine ==
    /\ raw = NoRaw
    /\ result = NoResult
    /\ page = FreshPage
    /\ plan = [status |-> "none", steps |-> <<>>]
    /\ filled_fields = EmptyDict
    /\ filtered_steps = <<>>
    /\ idx = 1
    /\ pc = "idle"
    /\ waited = FALSE
    /\ raised = "none"
    /\ trace = <<>>
    /\ run = 1
    /\ prevPage = FreshPage
    /\ prevTrace = <<>>
    /\ iteration = 0
    /\ mpc = "none"
    /\ html = NoSnapshot
    /\ planned = 0
    /\ aria_hidden = FALSE
    /\ BrowserIdle

SelectorInit ==
    /\ QuiescentEngine
    /\ ret = NoRet
    /\ widget = NoWidget
    /\ call \in {[fn |-> f, elem |-> e] :
                    f \in {"get_page_snapshot", "generate_robust_selectors"},
                    e \in Elements}
                \cup {[fn |-> "resolve_selector", selector |-> a, live |-> l] :
                         a \in ResolveArguments, l \in SUBSET {"id", "text"}}

SelectorNext ==
    \/ CallSnapshot
    \/ CallRobustSelectors
    \/ CallResolve

SelectorSpec == SelectorInit /\ [][SelectorNext]_vars

\* the order the candidates are to be tried in
PriorityRank(type) ==
    CASE type = "id" -> 1 [] type = "name" -> 2 [] type = "aria-label" -> 3
      [] type = "text" -> 4 [] type \in {"css-path", "nth-of-type"} -> 5
      [] OTHER -> 0

Ranked(cands) == SelectSeq(cands, LAMBDA c : PriorityRank(c.type) > 0)

\* C14: the candidates of an element that has no class and no data
\* attribute are listed as id, name, aria-label, visible text, structural
\* path, and the primary selector reported for the element is the first of
\* these that is available.
C14_CandidatePriority ==
    (ret.kind = "selectors" /\ call.elem.className = <<>> /\ call.elem.dataAttr = <<>>)
        => LET ranked == Ranked(ret.selectors)
           IN  /\ \A i, j \in 1..Len(ranked) :
                     i < j => PriorityRank(ranked[i].type) <= PriorityRank(ranked[j].type)
               /\ ranked # <<>> => ret.primary_selector = ranked[1]

-----------------------------------------------------------------------------
(* plan_executor._fuzzy_match.  A ratio is the fraction num/den, den > 0.   *)

Ratio(num, den) == [num |-> num, den |-> den]
RatioLess(r, q) == r.num * q.den < q.num * r.den
RatioAtLeast(r, q) == ~RatioLess(r, q)

\* Body applied to the value of x, which is computed once
Let1(x, Body(_)) == CHOOSE r \in {Body(y) : y \in {x}} : TRUE

SetMax(S) == CHOOSE n \in S : \A m \in S : m <= n
SetMin(S) == CHOOSE n \in S : \A m \in S : n <= m

\* length of the common run of a from position i and b from position j
RECURSIVE CommonLen(_, _, _, _)
CommonLen(a, b, i, j) ==
    IF i > Len(a) \/ j > Len(b) \/ a[i] # b[j] THEN 0
    ELSE 1 + CommonLen(a, b, i + 1, j + 1)

\* SequenceMatcher.find_longest_match: the longest common block, the one
\* starting earliest in a and, among those, earliest in b
LongestMatch(a, b) ==
    Let1({<<CommonLen(a, b, p[1], p[2]), p[1], p[2]>> :
             p \in (1..Len(a)) \X (1..Len(b))},
         LAMBDA runs :
            Let1(SetMax({t[1] : t \in runs}),
                 LAMBDA k :
                    IF k = 0 THEN [i |-> 0, j |-> 0, k |-> 0]
                    ELSE Let1(SetMin({t[2] : t \in {u \in runs : u[1] = k}}),
                              LAMBDA i :
                                 [i |-> i,
                                  j |-> SetMin({t[3] : t \in {u \in runs :
                                                   u[1] = k /\ u[2] = i}}),
                                  k |-> k])))

\* the total size of SequenceMatcher.get_matching_blocks
RECURSIVE MatchedChars(_, _)
MatchedChars(a, b) ==
    IF a = <<>> \/ b = <<>> THEN 0
    ELSE Let1(LongestMatch(a, b),
              LAMBDA m :
                 IF m.k = 0 THEN 0
                 ELSE Let1(<<SubSeq(a, 1, m.i - 1), SubSeq(b, 1, m.j - 1),
                             SubSeq(a, m.i + m.k, Len(a)), SubSeq(b, m.j + m.k, Len(b))>>,
                           LAMBDA parts :
                              m.k + MatchedChars(parts[1], parts[2])
                                  + MatchedChars(parts[3], parts[4])))

\* SequenceMatcher(None, a, b).ratio()
SequenceRatio(a, b) ==
    IF Len(a) + Len(b) = 0 THEN Ratio(1, 1)
    ELSE Ratio(2 * MatchedChars(a, b), Len(a) + Len(b))

\* semantic_groups, in list order
SemanticGroups == <<
    {
      <<"p", "r", "e", "f", "e", "r", " ", "n", "o", "t", " ", "t", "o", " ", "s", "a", "y">>,
      <<"d", "e", "c", "l", "i", "n", "e", " ", "t", "o", " ", "s", "e", "l", "f", " ", "v", "e", "r", "i", "f", "y">>,
      <<"d", "e", "c", "l", "i", "n", "e", " ", "t", "o", " ", "a", "n", "s", "w", "e", "r">>,
      <<"p", "r", "e", "f", "e", "r", " ", "n", "o", "t", " ", "t", "o", " ", "a", "n", "s", "w", "e", "r">>,
      <<"d", "o", " ", "n", "o", "t", " ", "w", "i", "s", "h", " ", "t", "o", " ", "a", "n", "s", "w", "e", "r">>,
      <<"n", "o", " ", "r", "e", "s", "p", "o", "n", "s", "e">>,
      <<"n", "o", "t", " ", "s", "p", "e", "c", "i", "f", "i", "e", "d">>,
      <<"u", "n", "s", "p", "e", "c", "i", "f", "i", "e", "d">>,
      <<"o", "t", "h", "e", "r">> },
    {
      <<"y", "e", "s">>,
      <<"y">>,
      <<"t", "r", "u", "e">>,
      <<"a", "g", "r", "e", "e">>,
      <<"a", "c", "c", "e", "p", "t">>,
      <<"c", "o", "n", "f", "i", "r", "m">> },
    {
      <<"n", "o">>,
      <<"n">>,
      <<"f", "a", "l", "s", "e">>,
      <<"d", "i", "s", "a", "g", "r", "e", "e">>,
      <<"d", "e", "c", "l", "i", "n", "e">>,
      <<"r", "e", "j", "e", "c", "t">>,
      <<"d", "e", "n", "y">> },
    {
      <<"o", "t", "h", "e", "r">>,
      <<"o", "t", "h", "e", "r", "s">>,
      <<"o", "t", "h", "e", "r", " ", "(", "p", "l", "e", "a", "s", "e", " ", "s", "p", "e", "c", "i", "f", "y", ")">>,
      <<"o", "t", "h", "e", "r", " ", "(", "s", "p", "e", "c", "i", "f", "y", ")">>,
      <<"n", "o", "t", " ", "l", "i", "s", "t", "e", "d">>,
      <<"n", "o", "n", "e", " ", "o", "f", " ", "t", "h", "e", " ", "a", "b", "o", "v", "e">> } >>

KeyWords ==
    { <<"p", "r", "e", "f", "e", "r">>, <<"d", "e", "c", "l", "i", "n", "e">>, <<"n", "o", "t">>, <<"o", "t", "h", "e", "r">>, <<"n", "o", "n", "e">>, <<"u", "n", "s", "p", "e", "c", "i", "f", "i", "e", "d">> }

PairedKeyWords == { <<"p", "r", "e", "f", "e", "r">>, <<"d", "e", "c", "l", "i", "n", "e">>, <<"o", "t", "h", "e", "r">> }

\* some phrase of the set occurs in the text
AnyIn(phrases, text) == \E phrase \in phrases : IsSubstr(phrase, text)

\* the first group one of whose phrases occurs in the target, or {}
TargetGroup(target_lower) ==
    LET hits == {g \in 1..Len(SemanticGroups) : AnyIn(SemanticGroups[g], target_lower)}
    IN  IF hits = {} THEN {}
        ELSE SemanticGroups[CHOOSE g \in hits : \A h \in hits : g <= h]

\* max(ratio, bonus) when the condition of the bonus holds
Boost(ratio, applies, bonus) ==
    IF applies /\ RatioLess(ratio, bonus) THEN bonus ELSE ratio

\* the score one option gets in the loop of _fuzzy_match
OptionRatio(target_lower, option_lower) ==
    Let1(TargetGroup(target_lower),
         LAMBDA target_group :
    Let1(SequenceRatio(target_lower, option_lower),
         LAMBDA base :
    Let1(Boost(base, target_group # {} /\ AnyIn(target_group, option_lower),
               Ratio(85, 100)),
         LAMBDA r1 :
    Let1(Boost(r1, IsSubstr(target_lower, option_lower), Ratio(80, 100)),
         LAMBDA r2 :
    Let1(Boost(r2, IsSubstr(option_lower, target_lower), Ratio(80, 100)),
         LAMBDA r3 :
            Boost(r3,
                  /\ AnyIn(KeyWords, target_lower)
                  /\ AnyIn(KeyWords, option_lower)
                  /\ \E w \in PairedKeyWords :
                        IsSubstr(w, target_lower) /\ IsSubstr(w, option_lower),
                  Ratio(75, 100)))))))

\* the loop of _fuzzy_match over options[from..]: the first option with the
\* strictly greatest score is kept
RECURSIVE FuzzyLoop(_, _, _, _)
FuzzyLoop(target_lower, options, from, best) ==
    IF from > Len(options) THEN best
    ELSE Let1(OptionRatio(target_lower, Lower(options[from])),
              LAMBDA ratio :
                 Let1(IF RatioLess(best.ratio, ratio)
                      THEN [match |-> options[from], ratio |-> ratio]
                      ELSE best,
                      LAMBDA kept : FuzzyLoop(target_lower, options, from + 1, kept)))

\* _fuzzy_match(target, options): [match, ratio]
FuzzyMatch(target, options) ==
    Let1(<<Lower(target), options>>,
         LAMBDA args :
            FuzzyLoop(args[1], args[2], 1, [match |-> None, ratio |-> Ratio(0, 1)]))

-----------------------------------------------------------------------------
(* plan_executor._handle_select on a custom (non-<select>) target, step by *)
(* step.  call holds the target and its surroundings: tag, the value the   *)
(* field shows (existing), step.value, whether a search input is found     *)
(* (searchable), the option texts the open menu shows, and the reply of    *)
(* the option-selection service (llm).  widget holds the field's current   *)
(* value and the handler's locals.                                         *)

VOther == <<"O", "t", "h", "e", "r">>
VQ == <<"q">>
Vxz == <<"x", "z">>
Vxqz == <<"x", "q", "z">>

\* containment either way, case-insensitive: the test of the re-read
Overlaps(u, v) == IsSubstr(Lower(u), Lower(v)) \/ IsSubstr(Lower(v), Lower(u))

Member(x, seq) == \E i \in 1..Len(seq) : seq[i] = x

\* the first position of seq satisfying Test, or 0
FirstWhere(seq, Test(_)) ==
    LET hits == {i \in 1..Len(seq) : Test(seq[i])}
    IN  IF hits = {} THEN 0 ELSE CHOOSE i \in hits : \A j \in hits : i <= j

\* DropdownSelectionModel.select_best_option: an option or None
SelectBestOption(available_options, llm) ==
    IF available_options = <<>> THEN None
    ELSE IF Len(available_options) = 1 THEN available_options[1]
    ELSE IF llm.kind = "raise" THEN None
    ELSE LET selected_option == Strip(llm.text)
             selected_lower == Lower(selected_option)
             same == FirstWhere(available_options,
                                LAMBDA o : Lower(o) = selected_lower)
             partial == FirstWhere(available_options,
                                   LAMBDA o : \/ IsSubstr(selected_lower, Lower(o))
                                              \/ IsSubstr(Lower(o), selected_lower))
         IN  IF Member(selected_option, available_options) THEN selected_option
             ELSE IF same # 0 THEN available_options[same]
             ELSE IF partial # 0 THEN available_options[partial]
             ELSE None

\* mutant: the best fuzzy match is taken whatever its score
FuzzyChoiceNoFloor(value, options) == FuzzyMatch(value, options).match

\* the click path's choice when the service gave nothing: _fuzzy_match, the
\* 'other' fallback below 0.6 and the 0.5 floor
FuzzyChoice(value, options) ==
    Let1(FuzzyMatch(value, options),
         LAMBDA first :
    Let1(IF RatioLess(first.ratio, Ratio(6, 10))
         THEN Let1(FuzzyMatch(Lower(VOther), options),
                   LAMBDA other :
                      IF RatioAtLeast(other.ratio, Ratio(7, 10)) THEN other ELSE first)
         ELSE first,
         LAMBDA chosen :
            IF chosen.match # None /\ RatioAtLeast(chosen.ratio, Ratio(5, 10))
            THEN chosen.match ELSE None))

\* what the field can show after text was typed into, or an option clicked
\* in, the open widget: the text, what it showed before, or any option
WidgetReactions(text) ==
    {text, widget.field} \cup {call.options[i] : i \in 1..Len(call.options)}

Progress(pcNext, field, best_match, source, verified) ==
    [widget EXCEPT !.pc = pcNext, !.field = field, !.best_match = best_match,
                   !.source = source, !.verified = verified]

SelectRaise(exc) == [widget EXCEPT !.pc = "raised", !.exc = exc]

\* locator.input_value() on the target: defined for input, textarea, select
CanReadValue == call.tag \in {"input", "textarea"}

\* the already-set check at the top of the custom branch
SelectCheckExisting ==
    /\ widget.pc = "check"
    /\ widget' = IF CanReadValue /\ TruthyStr(widget.field)
                 THEN [widget EXCEPT !.pc = "returned", !.shortcut = TRUE]
                 ELSE [widget EXCEPT !.pc = "open"]
    /\ UNCHANGED <<call, ret, execVars, mainVars, parseVars, snapVars, browserVars>>

\* await locator.click(): the widget opens, or the driver raises
SelectOpen ==
    /\ widget.pc = "open"
    /\ \/ widget' = [widget EXCEPT !.pc = "mode", !.opened = TRUE]
       \/ widget' = SelectRaise("PlaywrightError")
    /\ UNCHANGED <<call, ret, execVars, mainVars, parseVars, snapVars, browserVars>>

\* the search-mode path: type the chosen text, press Enter, return
SelectSearchMode ==
    /\ widget.pc = "mode"
    /\ call.searchable
    /\ LET best == SelectBestOption(call.options, call.llm)
           fromService == call.options # <<>> /\ TruthyStr(best)
                             /\ Member(best, call.options)
           typed == IF fromService THEN best ELSE call.value
           source == IF fromService THEN "service" ELSE "raw"
       IN  \/ \E shown \in WidgetReactions(typed) :
                 widget' = Progress("returned", shown, typed, source, FALSE)
           \/ widget' = SelectRaise("PlaywrightError")
    /\ UNCHANGED <<call, ret, execVars, mainVars, parseVars, snapVars, browserVars>>

\* the field is re-read after best_match was committed: it overlaps (the
\* handler returns), or the handler makes its one further attempt (fill and
\* Enter after an option click, an option click after fill and Enter) and
\* returns without reading the field again
VerifyThenRetry(best_match, source, shown) ==
    IF TruthyStr(shown) /\ Overlaps(best_match, shown)
    THEN {Progress("returned", shown, best_match, source, TRUE)}
    ELSE {[Progress("returned", after, best_match, source, FALSE)
              EXCEPT !.retried = widget.retried + 1] :
             after \in WidgetReactions(best_match)}

\* the option loop of the click-selection path for a chosen best_match:
\* the widget states the handler can end the path in
ClickOption(best_match, source) ==
    \* an option is found and clicked, then the field is re-read
    UNION { IF ~CanReadValue
            THEN {Progress("returned", shown, best_match, source, FALSE)}
            ELSE VerifyThenRetry(best_match, source, shown) :
            shown \in WidgetReactions(best_match) }
    \* no option could be clicked: the text is set directly in the field
    \cup (IF ~CanReadValue THEN {SelectRaise("PlaywrightError")}
          ELSE UNION { VerifyThenRetry(best_match, source, shown) :
                         shown \in WidgetReactions(best_match) })
    \* every option locator raised after its click
    \cup {[widget EXCEPT !.pc = "fallback", !.best_match = best_match,
                         !.source = source]}

\* the click-selection path: the widget states it can lead to
ClickSelection ==
    IF call.options = <<>>
    THEN \* the text=<value> direct match, when an element carries the text
         {Progress("returned", shown, call.value, "raw", FALSE) :
             shown \in WidgetReactions(call.value)}
         \cup {[widget EXCEPT !.pc = "fallback"]}
    ELSE LET fromService == SelectBestOption(call.options, call.llm)
             best_match == IF TruthyStr(fromService) THEN fromService
                           ELSE FuzzyChoice(call.value, call.options)
             source == IF TruthyStr(fromService) THEN "service" ELSE "fuzzy"
         IN  IF ~TruthyStr(best_match)
             THEN {[widget EXCEPT !.pc = "fallback"]}
             ELSE ClickOption(best_match, source)

SelectClickMode ==
    /\ widget.pc = "mode"
    /\ ~call.searchable
    /\ widget' \in ClickSelection
    /\ UNCHANGED <<call, ret, execVars, mainVars, parseVars, snapVars, browserVars>>

\* the type attribute values the fallback takes for a text input ("none":
\* the attribute is absent)
TextInputTypes == {"none", "text", "email", "tel", "search", "url"}

\* is_text_input: `and` binds tighter than `or`
IsTextInput ==
    \/ /\ call.tag = "input"
       /\ call.type \in TextInputTypes
       /\ ~call.readonly
    \/ call.tag = "textarea"

\* mutant: locator.fill() writes into a read-only control
EditableAlways == TRUE

\* locator.fill() waits for the target to be editable: a read-only control
\* makes it time out
Editable == ~call.readonly

\* the conversion to a fill for a text input, else PlanExecutionError; an
\* exception of the driver inside the conversion is caught and ends in the
\* same PlanExecutionError
SelectFallback ==
    /\ widget.pc = "fallback"
    /\ \/ /\ IsTextInput
          /\ Editable
          /\ \E shown \in WidgetReactions(call.value) :
                widget' = [Progress("returned", shown, call.value, "raw", FALSE)
                              EXCEPT !.converted = TRUE]
       \/ widget' = SelectRaise("PlanExecutionError")
    /\ UNCHANGED <<call, ret, execVars, mainVars, parseVars, snapVars, browserVars>>

OptionLists ==
    { <<>>, <<Vx>>, <<Vxy, Vz>>, <<Vz, VOther>>, <<VX, Vxy, VOther>>,
      <<Vxz, VQ>>, <<Vxqz, Vz>> }

ServiceReplies ==
    { [kind |-> "raise", text |-> <<>>], [kind |-> "text", text |-> Vxy],
      [kind |-> "text", text |-> VQ], [kind |-> "text", text |-> <<" ", "z">>] }

SelectInit ==
    /\ QuiescentEngine
    /\ ret = NoRet
    /\ call \in [fn : {"_handle_select"}, tag : {"input", "textarea", "div"},
                 type : {"none", "text", "number"}, readonly : BOOLEAN,
                 existing : {<<>>, Vx, Vz}, value : {Vx, Vxy},
                 searchable : BOOLEAN, options : OptionLists, llm : ServiceReplies]
    /\ call.tag # "input" => call.type = "none"
    /\ call.tag = "div" => ~call.readonly
    /\ widget = [pc |-> "check", field |-> call.existing, opened |-> FALSE,
                 shortcut |-> FALSE, best_match |-> None, source |-> "none",
                 verified |-> FALSE, retried |-> 0, converted |-> FALSE,
                 exc |-> "none"]

SelectNext ==
    \/ SelectCheckExisting
    \/ SelectOpen
    \/ SelectSearchMode
    \/ SelectClickMode
    \/ SelectFallback

SelectSpec == SelectInit /\ [][SelectNext]_vars

\* C15: while _handle_select runs on a custom target that already shows the
\* requested text, the widget is never clicked open, the field keeps its
\* value, and the handler does not raise.
C15_ShortCircuitWhenAlreadySet ==
    (widget.pc # "none" /\ call.value # <<>> /\ call.existing = call.value)
        => /\ widget.pc \in {"check", "returned"}
           /\ ~widget.opened
           /\ widget.field = call.existing
           /\ widget.exc = "none"

\* C16: a run on a custom widget that was not short-circuited returns
\* normally only with the field re-read and found to contain, or be
\* contained by, the committed text.
C16_SatisfiedOrFailed ==
    (widget.pc = "returned" /\ ~widget.shortcut)
        => (widget.verified /\ Overlaps(widget.best_match, widget.field))

\* the option-selection service produced no usable option
ServiceGaveNothing == ~TruthyStr(SelectBestOption(call.options, call.llm))

\* C17: when options were extracted and the service produced none of them,
\* the text the handler commits is the option _fuzzy_match picks for the
\* requested value (or for 'other'), in the search path and the click path.
C17_FuzzyFallback ==
    (/\ widget.pc = "returned" /\ ~widget.shortcut
     /\ call.options # <<>> /\ ServiceGaveNothing
     /\ widget.source # "none")
        => /\ widget.source = "fuzzy"
           /\ widget.best_match \in {FuzzyMatch(call.value, call.options).match,
                                     FuzzyMatch(Lower(VOther), call.options).match}

\* C24: when the re-read after a committed option did not overlap the
\* candidate, the handler makes one further attempt, and it returns normally
\* only with the field read again and found to overlap the candidate.
C24_RetryOnceThenVerify ==
    /\ widget.pc # "none" => widget.retried <= 1
    /\ (widget.pc = "returned" /\ widget.retried = 1)
          => (widget.verified /\ Overlaps(widget.best_match, widget.field))

\* the target is an input of a text type, or a textarea
TextCapable ==
    \/ call.tag = "input" /\ call.type \in {"none", "text", "email", "tel", "search", "url"}
    \/ call.tag = "textarea"

\* C25: once no dropdown strategy succeeded, the handler returns having
\* filled the requested value only for a text-capable input or textarea
\* that is not read-only, such a target can be filled, and the only other
\* way out is PlanExecutionError.
C25_FillFallbackOnlyForEditableText ==
    /\ (widget.pc = "returned" /\ widget.converted)
          => (TextCapable /\ ~call.readonly)
    /\ (widget.pc = "fallback" /\ TextCapable /\ ~call.readonly)
          => ENABLED (SelectFallback /\ widget'.pc = "returned" /\ widget'.converted)
    /\ (widget.pc = "fallback")
          => ~ENABLED (SelectFallback /\ widget'.pc = "raised"
                          /\ widget'.exc # "PlanExecutionError")
    /\ (widget.pc = "fallback" /\ ~(TextCapable /\ ~call.readonly))
          => ~ENABLED (SelectFallback /\ widget'.pc = "returned")

\* a text input on which every dropdown strategy failed was filled
C25_Witness ==
    /\ widget.pc = "returned"
    /\ widget.converted
    /\ call.tag = "textarea"
    /\ widget.field = call.value

\* the candidate the thresholds prescribe for the call in progress
PrescribedCandidate ==
    Let1(<<FuzzyMatch(call.value, call.options),
           FuzzyMatch(<<"o", "t", "h", "e", "r">>, call.options)>>,
         LAMBDA m :
            IF RatioLess(m[1].ratio, Ratio(6, 10)) /\ RatioAtLeast(m[2].ratio, Ratio(7, 10))
            THEN m[2].match
            ELSE IF RatioAtLeast(m[1].ratio, Ratio(5, 10)) THEN m[1].match
            ELSE None)

\* the click-selection path has just ended, with options extracted and no
\* answer from the service
ClickPathEndedWithoutService ==
    /\ widget.pc \in {"returned", "fallback"}
    /\ widget.opened /\ ~widget.converted
    /\ ~call.searchable
    /\ call.options # <<>>
    /\ ServiceGaveNothing

\* C26: in that case the committed candidate is the one the thresholds
\* prescribe, and with none prescribed no option is clicked.
C26_FuzzyThresholds ==
    ClickPathEndedWithoutService
      => /\ widget.best_match = PrescribedCandidate
         /\ PrescribedCandidate = None => (widget.pc = "fallback" /\ widget.source = "none")
         /\ PrescribedCandidate # None => widget.source = "fuzzy"

\* the top score is 0.4: below the floor, no 'other' option, nothing clicked
C26_Witness ==
    /\ ClickPathEndedWithoutService
    /\ call.value = Vxy /\ call.options = <<Vxqz, Vz>>
    /\ widget.pc = "fallback" /\ widget.best_match = None

\* the 'other' option replaces a weak top match
OtherPreferredReached ==
    /\ ClickPathEndedWithoutService
    /\ call.options = <<Vz, VOther>>
    /\ widget.best_match = VOther /\ widget.pc = "returned"

\* a top score of exactly 0.5 is accepted
FloorAcceptedReached ==
    /\ ClickPathEndedWithoutService
    /\ call.value = Vxy /\ call.options = <<Vxz, VQ>>
    /\ widget.best_match = Vxz /\ widget.pc = "returned"

-----------------------------------------------------------------------------
(* _fuzzy_match applied on its own *)

TPreferNotToSay ==
    <<"p", "r", "e", "f", "e", "r", " ", "n", "o", "t", " ", "t", "o", " ", "s", "a", "y">>
TUnitedStates ==
    <<"U", "n", "i", "t", "e", "d", " ", "S", "t", "a", "t", "e", "s">>
ODecline ==
    <<"D", "e", "c", "l", "i", "n", "e", " ", "t", "o", " ", "s", "e", "l", "f", "-", "i", "d", "e", "n", "t", "i", "f", "y">>
OYes == <<"Y", "e", "s">>
ONo == <<"N", "o">>
OUnitedStates1 ==
    <<"U", "n", "i", "t", "e", "d", " ", "S", "t", "a", "t", "e", "s", " ", "+", "1">>
OCanada1 == <<"C", "a", "n", "a", "d", "a", " ", "+", "1">>

FuzzyTargets == {TPreferNotToSay, TUnitedStates, OYes, Lower(VOther)}
FuzzyOptionPool == {ODecline, OYes, ONo, OUnitedStates1, OCanada1, VOther}

\* target and options handed to _fuzzy_match
FuzzyCalls ==
    [fn : {"_fuzzy_match"}, target : FuzzyTargets,
     options : SeqsUpTo(FuzzyOptionPool, 2) \cup {<<ODecline, OYes, ONo>>}]

CallFuzzyMatch ==
    /\ call.fn = "_fuzzy_match"
    /\ ret = NoRet
    /\ ret' = [kind |-> "fuzzy", best |-> FuzzyMatch(call.target, call.options)]
    /\ UNCHANGED <<call, widget, execVars, mainVars, parseVars, snapVars, browserVars>>

FuzzyInit ==
    /\ QuiescentEngine
    /\ call \in FuzzyCalls
    /\ ret = NoRet
    /\ widget = NoWidget

FuzzyNext == CallFuzzyMatch

FuzzySpec == FuzzyInit /\ [][FuzzyNext]_vars

\* C18: for 'prefer not to say' among Decline to self-identify / Yes / No the
\* result is the first candidate with a score of at least 0.85, and for
\* 'United States' among United States +1 / Canada +1 it is the first
\* candidate with a score of at least 0.8.
C18_FuzzyExamples ==
    ret.kind = "fuzzy"
        => /\ (call.target = TPreferNotToSay /\ call.options = <<ODecline, OYes, ONo>>)
                 => /\ ret.best.match = ODecline
                    /\ RatioAtLeast(ret.best.ratio, Ratio(85, 100))
           /\ (call.target = TUnitedStates /\ call.options = <<OUnitedStates1, OCanada1>>)
                 => /\ ret.best.match = OUnitedStates1
                    /\ RatioAtLeast(ret.best.ratio, Ratio(80, 100))

-----------------------------------------------------------------------------
(* core/html_parser/parser.py: parse_html_semantics.  A document is the    *)
(* sequence of its elements in document order; each element names its      *)
(* parent by position (0 is the document root) and carries the attributes  *)
(* the parser looks at.                                                    *)

MaxElements == 2   \* most elements in a parsed document

StyleDisplayNone == <<"D", "i", "s", "p", "l", "a", "y", ":", " ", "N", "o", "n", "e">>
StyleHalfOpaque == <<"o", "p", "a", "c", "i", "t", "y", ":", " ", "0", ".", "5">>
NeedleDisplayNone == <<"d", "i", "s", "p", "l", "a", "y", ":", "n", "o", "n", "e">>
NeedleVisibilityHidden == <<"v", "i", "s", "i", "b", "i", "l", "i", "t", "y", ":", "h", "i", "d", "d", "e", "n">>
NeedleOpacityZero == <<"o", "p", "a", "c", "i", "t", "y", ":", "0">>

\* style.replace(" ", "")
RemoveSpaces(str) == SelectSeq(str, LAMBDA c : c # " ")

\* is_hidden_element
IsHiddenElement(tag) ==
    \/ tag.hidden
    \/ tag.name = "input" /\ tag.type = "hidden"
    \/ LET style_lower == Lower(RemoveSpaces(tag.style))
       IN  \/ IsSubstr(NeedleDisplayNone, style_lower)
           \/ IsSubstr(NeedleVisibilityHidden, style_lower)
           \/ IsSubstr(NeedleOpacityZero, style_lower)

\* the element and its ancestors, up to the document root
RECURSIVE SelfAndAncestors(_, _)
SelfAndAncestors(doc, i) ==
    IF i = 0 THEN {} ELSE {i} \cup SelfAndAncestors(doc, doc[i].parent)

\* is_effectively_hidden
IsEffectivelyHidden(doc, i) ==
    \E k \in SelfAndAncestors(doc, i) : IsHiddenElement(doc[k])

\* soup.find_all(names): positions in document order
FindAll(doc, names) == Ascending({i \in 1..Len(doc) : doc[i].name \in names})

\* el.find_all(names): the descendants of el carrying one of the names
FindAllUnder(doc, el, names) ==
    Ascending({i \in 1..Len(doc) :
                  doc[i].name \in names /\ i # el /\ el \in SelfAndAncestors(doc, i)})

\* tag.find_parent("form") is None
HasNoFormParent(doc, i) ==
    \A k \in SelfAndAncestors(doc, i) \ {i} : doc[k].name # "form"

Visible(doc, positions) ==
    SelectSeq(positions, LAMBDA i : ~IsEffectivelyHidden(doc, i))

Standalone(doc, positions) ==
    SelectSeq(Visible(doc, positions), LAMBDA i : HasNoFormParent(doc, i))

Last(seq) == seq[Len(seq)]

\* the forms the outer loop does not skip
VisibleForms(doc) == Visible(doc, FindAll(doc, {"form"}))

\* the value of the loop variable b when the clickables loop starts: the
\* last element either button loop iterated over, or 0 when neither loop
\* ran its body (b is then unbound)
ButtonLoopVariable(doc) ==
    LET standalone == FindAll(doc, {"button"})
        inForms == {f \in 1..Len(VisibleForms(doc)) :
                       FindAllUnder(doc, VisibleForms(doc)[f], {"button", "input"}) # <<>>}
        lastForm == CHOOSE f \in inForms : \A g \in inForms : g <= f
    IN  IF standalone # <<>> THEN Last(standalone)
        ELSE IF inForms # {}
        THEN Last(FindAllUnder(doc, VisibleForms(doc)[lastForm], {"button", "input"}))
        ELSE 0

\* the clickables loop: every element is tested with is_effectively_hidden(b)
Clickables(doc, b) ==
    SelectSeq([i \in 1..Len(doc) |-> i],
              LAMBDA el : /\ ~IsEffectivelyHidden(doc, b)
                          /\ doc[el].name \notin {"button", "a"}
                          /\ (doc[el].role = "button" \/ doc[el].tabindex = "0"))

\* the entry of one form in results["forms"]
FormData(doc, form) ==
    [form |-> form,
     inputs |-> Visible(doc, FindAllUnder(doc, form, {"input"}))
                   \o Visible(doc, FindAllUnder(doc, form, {"textarea"})),
     buttons |-> SelectSeq(Visible(doc, FindAllUnder(doc, form, {"button", "input"})),
                           LAMBDA i : \/ doc[i].name = "button"
                                      \/ doc[i].type \in {"submit", "button", "reset"}),
     selects |-> Visible(doc, FindAllUnder(doc, form, {"select"})),
     labels |-> Visible(doc, FindAllUnder(doc, form, {"label"}))]

\* parse_html_semantics
ParseHtmlSemantics(doc) ==
    LET b == ButtonLoopVariable(doc)
    IN  IF doc # <<>> /\ b = 0
        THEN [kind |-> "raise", exc |-> "UnboundLocalError", forms |-> <<>>,
              inputs |-> <<>>, buttons |-> <<>>, selects |-> <<>>, links |-> <<>>,
              clickables |-> <<>>]
        ELSE [kind |-> "semantics", exc |-> "none",
              forms |-> [f \in 1..Len(VisibleForms(doc)) |->
                            FormData(doc, VisibleForms(doc)[f])],
              inputs |-> Standalone(doc, FindAll(doc, {"input"}))
                            \o Standalone(doc, FindAll(doc, {"textarea"})),
              buttons |-> Standalone(doc, FindAll(doc, {"button"})),
              selects |-> Standalone(doc, FindAll(doc, {"select"})),
              links |-> Standalone(doc, FindAll(doc, {"a"})),
              clickables |-> IF doc = <<>> THEN <<>> ELSE Clickables(doc, b)]

CallParseHtml ==
    /\ call.fn = "parse_html_semantics"
    /\ ret = NoRet
    /\ ret' = ParseHtmlSemantics(call.doc)
    /\ UNCHANGED <<call, widget, execVars, mainVars, parseVars, snapVars, browserVars>>

Element(name, type, hidden, style, role) ==
    [name |-> name, type |-> type, hidden |-> hidden, style |-> style,
     role |-> role, tabindex |-> "", parent |-> 0]

\* the elements documents are built from
ElementPool ==
    { Element("form", "", FALSE, <<>>, ""),
      Element("form", "", FALSE, StyleDisplayNone, ""),
      Element("div", "", FALSE, <<>>, ""),
      Element("div", "", TRUE, <<>>, ""),
      Element("div", "", FALSE, <<>>, "button"),
      Element("div", "", FALSE, StyleDisplayNone, "button"),
      Element("input", "text", FALSE, <<>>, ""),
      Element("input", "hidden", FALSE, <<>>, ""),
      Element("input", "submit", FALSE, StyleHalfOpaque, ""),
      Element("button", "", FALSE, <<>>, ""),
      Element("button", "", TRUE, <<>>, ""),
      Element("select", "", FALSE, <<>>, ""),
      Element("label", "", FALSE, <<>>, ""),
      Element("a", "", FALSE, <<>>, "") }

Containers == {"form", "div"}

\* documents of n elements: each element hangs under the root or under an
\* earlier form or div
RECURSIVE DocumentsOf(_)
DocumentsOf(n) ==
    IF n = 0 THEN {<<>>}
    ELSE {Append(d, [e EXCEPT !.parent = par]) :
             d \in DocumentsOf(n - 1), e \in ElementPool,
             par \in 0..(n - 1)}

WellFormed(doc) ==
    \A i \in 1..Len(doc) :
       doc[i].parent # 0 => doc[doc[i].parent].name \in Containers

Documents ==
    {d \in UNION {DocumentsOf(n) : n \in 0..MaxElements} : WellFormed(d)}

HtmlInit ==
    /\ QuiescentEngine
    /\ call \in [fn : {"parse_html_semantics"}, doc : Documents]
    /\ ret = NoRet
    /\ widget = NoWidget

HtmlNext == CallParseHtml

HtmlSpec == HtmlInit /\ [][HtmlNext]_vars

\* every element position listed anywhere in the result
Listed(r) ==
    LET inForm(fd) == {fd.inputs[i] : i \in 1..Len(fd.inputs)}
                         \cup {fd.buttons[i] : i \in 1..Len(fd.buttons)}
                         \cup {fd.selects[i] : i \in 1..Len(fd.selects)}
                         \cup {fd.labels[i] : i \in 1..Len(fd.labels)}
        alone(list) == {list[i] : i \in 1..Len(list)}
    IN  UNION {inForm(r.forms[f]) : f \in 1..Len(r.forms)}
           \cup alone(r.inputs) \cup alone(r.buttons) \cup alone(r.selects)
           \cup alone(r.links) \cup alone(r.clickables)

\* C19: no element listed in the result of parse_html_semantics is hidden
\* or has a hidden ancestor.
C19_NoHiddenElementListed ==
    ret.kind = "semantics"
        => \A i \in Listed(ret) : ~IsEffectivelyHidden(call.doc, i)

\* C20: parse_html_semantics returns a result for every document, whatever
\* elements it holds or lacks.
C20_NeverRaises ==
    (call.fn = "parse_html_semantics" /\ ret # NoRet) => ret.kind = "semantics"

-----------------------------------------------------------------------------
(* core/html_parser/parser.py: map_labels.  A document is again the        *)
(* sequence of its elements in document order with parent positions; an    *)
(* element carries its id, its for attribute and, for a label, the text    *)
(* get_text_clean returns for it ("" when absent).                         *)

MaxLabelElements == 3   \* most elements in a document given to map_labels

LabelElement(name, id, for, text) ==
    [name |-> name, id |-> id, for |-> for, text |-> text, parent |-> 0]

LabelElementPool ==
    { LabelElement("label", "", f, t) : f \in {"", "f"}, t \in {"", "A", "B"} }
    \cup { LabelElement("input", "f", "", ""), LabelElement("input", "", "", ""),
           LabelElement("div", "", "", "") }

\* the mapping is a function from the mapped ids to label texts
NoMapping == [k \in {} |-> ""]
Assign(mapping, key, text) ==
    [k \in DOMAIN mapping \cup {key} |-> IF k = key THEN text ELSE mapping[k]]

\* tag.find(name): the first descendant with that name, or 0
Find(doc, el, name) ==
    LET under == {j \in 1..Len(doc) : j # el /\ el \in SelfAndAncestors(doc, j)
                                        /\ doc[j].name = name}
    IN  IF under = {} THEN 0 ELSE SetMin(under)

\* one pass of the first loop: the for attribute, then the wrapped input
LabelPass(doc, lbl, mapping) ==
    LET m1 == IF doc[lbl].for # "" THEN Assign(mapping, doc[lbl].for, doc[lbl].text)
              ELSE mapping
        inp == Find(doc, lbl, "input")
    IN  IF inp # 0 /\ doc[inp].id # "" THEN Assign(m1, doc[inp].id, doc[lbl].text)
        ELSE m1

RECURSIVE LabelLoop(_, _, _, _)
LabelLoop(doc, labels, from, mapping) ==
    IF from > Len(labels) THEN mapping
    ELSE LabelLoop(doc, labels, from + 1, LabelPass(doc, labels[from], mapping))

\* parent.children up to the field: the first label child with a text
LabelBeforeInParent(doc, field) ==
    LET before == {j \in 1..Len(doc) : /\ j < field
                                        /\ doc[j].parent = doc[field].parent
                                        /\ doc[j].name = "label"
                                        /\ doc[j].text # ""}
    IN  IF before = {} THEN 0 ELSE SetMin(before)

\* parent.previous_siblings, nearest first: a label with a text, or the
\* first label inside a sibling when that label has a text
RECURSIVE SiblingLabel(_, _)
SiblingLabel(doc, siblings) ==
    IF siblings = <<>> THEN 0
    ELSE LET sib == siblings[1]
             inner == Find(doc, sib, "label")
         IN  IF doc[sib].name = "label"
             THEN IF doc[sib].text # "" THEN sib ELSE SiblingLabel(doc, Tail(siblings))
             ELSE IF inner # 0 /\ doc[inner].text # "" THEN inner
             ELSE SiblingLabel(doc, Tail(siblings))

PreviousSiblings(doc, el) ==
    IF el = 0 THEN <<>>
    ELSE Descending({j \in 1..Len(doc) : j < el /\ doc[j].parent = doc[el].parent})

\* one pass of the second loop, for a field that carries an id
FieldPass(doc, field, mapping) ==
    IF doc[field].id = "" \/ doc[field].id \in DOMAIN mapping THEN mapping
    ELSE LET child == LabelBeforeInParent(doc, field)
             near == SiblingLabel(doc, PreviousSiblings(doc, doc[field].parent))
         IN  IF child # 0 THEN Assign(mapping, doc[field].id, doc[child].text)
             ELSE IF near # 0 THEN Assign(mapping, doc[field].id, doc[near].text)
             ELSE mapping

RECURSIVE FieldLoop(_, _, _, _)
FieldLoop(doc, fields, from, mapping) ==
    IF from > Len(fields) THEN mapping
    ELSE FieldLoop(doc, fields, from + 1, FieldPass(doc, fields[from], mapping))

\* map_labels(soup)
MapLabels(doc) ==
    FieldLoop(doc, FindAll(doc, {"input", "textarea"}), 1,
              LabelLoop(doc, FindAll(doc, {"label"}), 1, NoMapping))

CallMapLabels ==
    /\ call.fn = "map_labels"
    /\ ret = NoRet
    /\ ret' = [kind |-> "mapping", mapping |-> MapLabels(call.doc)]
    /\ UNCHANGED <<call, widget, execVars, mainVars, parseVars, snapVars, browserVars>>

\* the positions a next element can hang under: the root, or a label or div
\* that is still open at the end of doc
OpenContainers(doc) ==
    {0} \cup {k \in SelfAndAncestors(doc, Len(doc)) : doc[k].name \in {"label", "div"}}

\* documents of n elements in document order; at most one field has the id
RECURSIVE LabelDocumentsOf(_)
LabelDocumentsOf(n) ==
    IF n = 0 THEN {<<>>}
    ELSE UNION { { Append(d, [e EXCEPT !.parent = par]) :
                     e \in {x \in LabelElementPool :
                               x.id = "f" => \A i \in 1..Len(d) : d[i].id # "f"},
                     par \in OpenContainers(d) } :
                 d \in LabelDocumentsOf(n - 1) }

\* every document of at most n elements
LabelDocumentsUpTo(n) == UNION {LabelDocumentsOf(k) : k \in 0..n}

LabelInit ==
    /\ QuiescentEngine
    /\ call \in [fn : {"map_labels"}, doc : LabelDocumentsUpTo(MaxLabelElements)]
    /\ ret = NoRet
    /\ widget = NoWidget

LabelNext == CallMapLabels

LabelSpec == LabelInit /\ [][LabelNext]_vars

\* the labels of each kind available to the field at position field
ExplicitLabels(doc, field) ==
    {l \in 1..Len(doc) : doc[l].name = "label" /\ doc[l].for = doc[field].id}
WrappingLabels(doc, field) ==
    {l \in SelfAndAncestors(doc, field) \ {field} : doc[l].name = "label"}
PrecedingLabels(doc, field) ==
    {l \in 1..Len(doc) : /\ doc[l].name = "label" /\ l < field
                          /\ doc[l].parent = doc[field].parent}
SiblingLabels(doc, field) ==
    {l \in 1..Len(doc) :
        /\ doc[l].name = "label"
        /\ \E sib \in 1..Len(doc) :
              /\ doc[field].parent # 0
              /\ sib < doc[field].parent
              /\ doc[sib].parent = doc[doc[field].parent].parent
              /\ sib \in SelfAndAncestors(doc, l)}

HighestPriorityLabels(doc, field) ==
    IF ExplicitLabels(doc, field) # {} THEN ExplicitLabels(doc, field)
    ELSE IF WrappingLabels(doc, field) # {} THEN WrappingLabels(doc, field)
    ELSE IF PrecedingLabels(doc, field) # {} THEN PrecedingLabels(doc, field)
    ELSE SiblingLabels(doc, field)

\* C27: for the field that carries an id, when a label of some kind is
\* available the mapping holds the text of a label of the highest-priority
\* kind available (explicit, wrapping, preceding in the parent, in a
\* preceding sibling of the parent).
C27_LabelPriority ==
    ret.kind = "mapping"
      => \A field \in 1..Len(call.doc) :
            (/\ call.doc[field].name = "input" /\ call.doc[field].id # ""
             /\ HighestPriorityLabels(call.doc, field) # {}
             /\ \A l \in HighestPriorityLabels(call.doc, field) : call.doc[l].text # "")
              => /\ call.doc[field].id \in DOMAIN ret.mapping
                 /\ \E l \in HighestPriorityLabels(call.doc, field) :
                       ret.mapping[call.doc[field].id] = call.doc[l].text

-----------------------------------------------------------------------------
(* mcp/server/tools/browser.py: get_page and close_browser called by       *)
(* concurrent tool calls.  A task runs from one await to the next without  *)
(* interruption; at an await any other task may run.  Handles are numbers: *)
(* the n-th browser launched is n, and so are its playwright driver and    *)
(* its page.                                                               *)

MaxToolCalls == 2   \* most get_page / close_browser calls one task makes

engineVars == <<execVars, mainVars, parseVars, callVars, snapVars>>

At(t, pcs) == tasks[t].pc \in pcs
Goto(t, pcNext) == [tasks EXCEPT ![t].pc = pcNext]
Finish(t) == [tasks EXCEPT ![t] = [pc |-> "idle", calls |-> tasks[t].calls + 1,
                                   browser |-> 0]]
HandOut(pg) == [interval EXCEPT !.pages = interval.pages \cup {pg}]

\* get_page, `if _page is None` false: the page is returned at once
GetPageCached(t) ==
    /\ At(t, {"idle"}) /\ tasks[t].calls < MaxToolCalls
    /\ _page # 0
    /\ tasks' = Finish(t)
    /\ interval' = HandOut(_page)
    /\ UNCHANGED <<_playwright, _browser, _page>>
    /\ UNCHANGED engineVars

\* get_page, `if _page is None` true: await async_playwright().start()
GetPageStart(t) ==
    /\ At(t, {"idle"}) /\ tasks[t].calls < MaxToolCalls
    /\ _page = 0
    /\ tasks' = Goto(t, "start")
    /\ UNCHANGED <<_playwright, _browser, _page, interval>>
    /\ UNCHANGED engineVars

\* _playwright = <started driver>; await _playwright.chromium.launch(...)
GetPageLaunch(t) ==
    /\ At(t, {"start"})
    /\ _playwright' = interval.minted + 1
    /\ interval' = [interval EXCEPT !.minted = interval.minted + 1,
                                    !.launched = interval.launched + 1]
    /\ tasks' = [tasks EXCEPT ![t].pc = "launch", ![t].browser = interval.minted + 1]
    /\ UNCHANGED <<_browser, _page>>
    /\ UNCHANGED engineVars

\* _browser = <launched browser>; context = await _browser.new_context(...)
GetPageContext(t) ==
    /\ At(t, {"launch"})
    /\ _browser' = tasks[t].browser
    /\ tasks' = Goto(t, "context")
    /\ UNCHANGED <<_playwright, _page, interval>>
    /\ UNCHANGED engineVars

\* await context.add_init_script(...)
GetPageScript(t) ==
    /\ At(t, {"context"})
    /\ tasks' = Goto(t, "script")
    /\ UNCHANGED <<_playwright, _browser, _page, interval>>
    /\ UNCHANGED engineVars

\* await context.new_page()
GetPageNewPage(t) ==
    /\ At(t, {"script"})
    /\ tasks' = Goto(t, "page")
    /\ UNCHANGED <<_playwright, _browser, _page, interval>>
    /\ UNCHANGED engineVars

\* _page = <new page>; return _page
GetPageReturn(t) ==
    /\ At(t, {"page"})
    /\ _page' = tasks[t].browser
    /\ tasks' = Finish(t)
    /\ interval' = HandOut(tasks[t].browser)
    /\ UNCHANGED <<_playwright, _browser>>
    /\ UNCHANGED engineVars

\* close_browser, `if _browser` false: the globals are reset at once
CloseNothing(t) ==
    /\ At(t, {"idle"}) /\ tasks[t].calls < MaxToolCalls
    /\ _browser = 0
    /\ _playwright' = 0 /\ _browser' = 0 /\ _page' = 0
    /\ tasks' = Finish(t)
    /\ interval' = [interval EXCEPT !.launched = 0, !.pages = {}]
    /\ UNCHANGED engineVars

\* close_browser, `if _browser` true: await _browser.close()
CloseBrowser(t) ==
    /\ At(t, {"idle"}) /\ tasks[t].calls < MaxToolCalls
    /\ _browser # 0
    /\ tasks' = Goto(t, "closing")
    /\ interval' = [interval EXCEPT !.launched = 0, !.pages = {}]
    /\ UNCHANGED <<_playwright, _browser, _page>>
    /\ UNCHANGED engineVars

\* await _playwright.stop(): AttributeError when the global is None by now
CloseStop(t) ==
    /\ At(t, {"closing"})
    /\ tasks' = Goto(t, IF _playwright = 0 THEN "raised" ELSE "stopping")
    /\ UNCHANGED <<_playwright, _browser, _page, interval>>
    /\ UNCHANGED engineVars

\* _browser = None; _page = None; _playwright = None
CloseReset(t) ==
    /\ At(t, {"stopping"})
    /\ _playwright' = 0 /\ _browser' = 0 /\ _page' = 0
    /\ tasks' = Finish(t)
    /\ UNCHANGED interval
    /\ UNCHANGED engineVars

BrowserInit ==
    /\ QuiescentEngine
    /\ call = NoCall
    /\ ret = NoRet
    /\ widget = NoWidget

BrowserNext ==
    \/ \E t \in Tasks : GetPageCached(t)
    \/ \E t \in Tasks : GetPageStart(t)
    \/ \E t \in Tasks : GetPageLaunch(t)
    \/ \E t \in Tasks : GetPageContext(t)
    \/ \E t \in Tasks : GetPageScript(t)
    \/ \E t \in Tasks : GetPageNewPage(t)
    \/ \E t \in Tasks : GetPageReturn(t)
    \/ \E t \in Tasks : CloseNothing(t)
    \/ \E t \in Tasks : CloseBrowser(t)
    \/ \E t \in Tasks : CloseStop(t)
    \/ \E t \in Tasks : CloseReset(t)

BrowserSpec == BrowserInit /\ [][BrowserNext]_vars

\* C30: since the last close_browser call at most one browser was launched
\* and every get_page call returned the same page.
C30_SingleBrowser ==
    /\ interval.launched <= 1
    /\ Cardinality(interval.pages) <= 1
====
